---- MODULE Spec2Model ----
(***************************************************************************)
(* A model of the rkm kernel-module loader (crate kmod-loader).            *)
(*                                                                         *)
(* Spec models one call of ModuleLoader::new + load_module on one ELF      *)
(* image, step by step, against a host (vmalloc / resolve_symbol /         *)
(* change_perms / flush_cache) whose answers are chosen nondeterministically.*)
(*                                                                         *)
(* 64-bit machine words are tuples of four 16-bit limbs, least significant *)
(* limb first, so that wrapping arithmetic and range checks keep their     *)
(* width although TLC's own integers are 32 bits wide.                     *)
(***************************************************************************)
EXTENDS Integers, Sequences, FiniteSets, TLC

\* ------------------------------------------------------------------------
\* 64-bit words
\* ------------------------------------------------------------------------

Limb == 2^16

\* The word of a natural number below 2^31.
U64(n) == <<n % Limb, (n \div Limb) % Limb, 0, 0>>

ZERO64 == <<0, 0, 0, 0>>

\* u64::wrapping_add
wrapping_add(a, b) ==
    LET s1 == a[1] + b[1]
        s2 == a[2] + b[2] + (s1 \div Limb)
        s3 == a[3] + b[3] + (s2 \div Limb)
        s4 == a[4] + b[4] + (s3 \div Limb)
    IN <<s1 % Limb, s2 % Limb, s3 % Limb, s4 % Limb>>

\* bitwise complement
Not64(a) == <<Limb - 1 - a[1], Limb - 1 - a[2], Limb - 1 - a[3], Limb - 1 - a[4]>>

\* two's complement negation
Neg64(a) == wrapping_add(Not64(a), U64(1))

\* u64::wrapping_sub
wrapping_sub(a, b) == wrapping_add(a, Neg64(b))

\* the sign of the word read as i64
IsNeg64(a) == a[4] >= Limb \div 2

\* unsigned a < b
ULess(a, b) ==
    \/ a[4] < b[4]
    \/ a[4] = b[4] /\ a[3] < b[3]
    \/ a[4] = b[4] /\ a[3] = b[3] /\ a[2] < b[2]
    \/ a[4] = b[4] /\ a[3] = b[3] /\ a[2] = b[2] /\ a[1] < b[1]

\* signed (i64) a < b
SLess(a, b) ==
    IF IsNeg64(a) # IsNeg64(b) THEN IsNeg64(a) ELSE ULess(a, b)

\* `x as u32 as u64`: the low 32 bits, zero-extended
AsU32(a) == <<a[1], a[2], 0, 0>>

\* `x as i32 as i64`: the low 32 bits, sign-extended
AsI32(a) ==
    IF a[2] >= Limb \div 2 THEN <<a[1], a[2], Limb - 1, Limb - 1>>
    ELSE <<a[1], a[2], 0, 0>>

\* limb i of the word, with the sign limb beyond the top (i64 >> by whole limbs)
SLimb(a, i) == IF i <= 4 THEN a[i] ELSE (IF IsNeg64(a) THEN Limb - 1 ELSE 0)

\* i64 `>>` (arithmetic shift right) by k bits, 0 <= k < 64
Sar64(a, k) ==
    LET q == k \div 16
        r == k % 16
        L(i) == (SLimb(a, i + q) \div 2^r) + (SLimb(a, i + q + 1) % 2^r) * 2^(16 - r)
    IN <<L(1), L(2), L(3), L(4)>>

\* limb i of the mask 2^n - 1
MaskLimb(n, i) ==
    IF n >= 16 * i THEN Limb - 1
    ELSE IF n <= 16 * (i - 1) THEN 0
    ELSE 2^(n - 16 * (i - 1)) - 1

\* a & (2^n - 1)
LowBits(a, n) ==
    <<a[1] % (MaskLimb(n, 1) + 1), a[2] % (MaskLimb(n, 2) + 1),
      a[3] % (MaskLimb(n, 3) + 1), a[4] % (MaskLimb(n, 4) + 1)>>

\* a & ~(2^n - 1)
ClearLowBits(a, n) ==
    <<a[1] - (a[1] % (MaskLimb(n, 1) + 1)), a[2] - (a[2] % (MaskLimb(n, 2) + 1)),
      a[3] - (a[3] % (MaskLimb(n, 3) + 1)), a[4] - (a[4] % (MaskLimb(n, 4) + 1))>>

\* the natural number of a word below 2^31
ToNat(a) == a[1] + a[2] * Limb

\* the little-endian bytes of the low n bytes of a word
LeBytes(a, n) ==
    [i \in 0 .. n - 1 |->
        LET l == a[(i \div 2) + 1] IN IF i % 2 = 0 THEN l % 256 ELSE l \div 256]

\* u64 `<<` by k bits, 0 <= k < 64
Shl64(a, k) ==
    LET q == k \div 16
        r == k % 16
        A(n) == IF n >= 1 THEN a[n] ELSE 0
        L(n) == ((A(n - q) * 2^r) % Limb) + (A(n - q - 1) \div 2^(16 - r))
    IN <<L(1), L(2), L(3), L(4)>>

\* bits shift .. shift + width - 1 of a word that is not negative as i64
Field(word, shift, width) == LowBits(Sar64(word, shift), width)

\* `w &= !(mask << shift); w |= (imm & mask) << shift` with mask = 2^width - 1,
\* on a word that is not negative as i64
SetField(word, shift, width, imm) ==
    wrapping_add(wrapping_sub(word, Shl64(Field(word, shift, width), shift)),
                 Shl64(LowBits(imm, width), shift))

\* `&` of two limbs, from bit b up
RECURSIVE AndBits(_, _, _)
AndBits(x, y, b) ==
    IF b = 16 THEN 0
    ELSE ((x \div 2^b) % 2) * ((y \div 2^b) % 2) * 2^b + AndBits(x, y, b + 1)

\* i64 `&`
And64(a, b) ==
    <<AndBits(a[1], b[1], 0), AndBits(a[2], b[2], 0), AndBits(a[3], b[3], 0),
      AndBits(a[4], b[4], 0)>>


\* ------------------------------------------------------------------------
\* The ELF image (the input of ModuleLoader::new)
\* ------------------------------------------------------------------------

\* special section indices of a symbol (st_shndx)
SHN_UNDEF == 0
SHN_ABS == 65521
SHN_COMMON == 65522

\* the allocation granule of layout_and_allocate
PAGE_SIZE == 4096

\* sh_entsize of an SHT_RELA section (size of Elf64_Rela)
RELA_ENTSIZE == 24

\* core::mem::size_of::<Module>(): the struct is repr(align(64)); the value is
\* fixed by the build, the model takes one multiple of 64.
SizeOfModule == 576

\* a word the host's symbol table resolves names to: 0xffffffff80001000
KernelAddr == Neg64(U64(2147479552))

\* Option<T>: None is the empty tuple, Some(v) the one-element tuple
None == <<>>
Some(v) == <<v>>

\* One section header with the view of its file bytes the loader takes:
\* `tokens` for .modinfo (NUL-separated strings), `relas` for a relocation section.
Shdr(name, type, flags, size, info, tokens, relas) ==
    [name |-> name, sh_type |-> type, sh_flags |-> flags, sh_size |-> size,
     sh_offset |-> 0, sh_info |-> info, sh_addr |-> ZERO64,
     tokens |-> tokens, relas |-> relas]

\* A section table with every section given its own place in the file.
Table(secs) == [k \in 1 .. Len(secs) |-> [secs[k] EXCEPT !.sh_offset = 2 * PAGE_SIZE * k]]

NullShdr == Shdr("", "NULL", {}, 0, 0, <<>>, <<>>)

\* One .modinfo token: `key=value\0`; eq = FALSE is a token with no '=',
\* nul = FALSE a last token with no terminating NUL.
Token(key, value) == [key |-> key, value |-> value, eq |-> TRUE, nul |-> TRUE, len |-> 8]

RECURSIVE TokensLen(_)
TokensLen(toks) == IF toks = <<>> THEN 0 ELSE Head(toks).len + TokensLen(Tail(toks))

ModinfoShdr(toks) == Shdr(".modinfo", "PROGBITS", {"ALLOC"}, TokensLen(toks), 0, toks, <<>>)

GoodModinfo == ModinfoShdr(<<Token("license", "GPL"), Token("name", "hello")>>)

\* the contents a .modinfo section is given
ModinfoChoices ==
    { <<>>,
      <<Token("license", "GPL")>>,
      <<Token("name", "hello")>>,
      <<Token("license", "GPL"), Token("name", "hello"), Token("name", "other")>>,
      <<[Token("name", "") EXCEPT !.eq = FALSE]>>,
      <<Token("name", "hello"), [Token("license", "GPL") EXCEPT !.nul = FALSE]>> }

ThisModule(size, flags) ==
    Shdr(".gnu.linkonce.this_module", "PROGBITS", flags, size, 0, <<>>, <<>>)

GoodThisModule == ThisModule(SizeOfModule, {"ALLOC", "WRITE"})

Text(size) == Shdr(".text", "PROGBITS", {"ALLOC", "EXECINSTR"}, size, 0, <<>>, <<>>)

RelaShdr(name, type, info, relas) ==
    Shdr(name, type, {}, RELA_ENTSIZE * Len(relas), info, <<>>, relas)

\* One Elf64_Rela, with r_info taken apart by get_rela_type / get_rela_sym_idx.
Rela(kind, sym, offset, addend) ==
    [kind |-> kind, sym |-> sym, r_offset |-> offset, r_addend |-> addend]

\* One Elf64_Sym
Sym(name, shndx, value) == [st_name |-> name, st_shndx |-> shndx, st_value |-> value]

NullSym == Sym("", SHN_UNDEF, ZERO64)

Elf(parses, is_64, machine, data, shdrs, syms) ==
    [parses |-> parses, is_64 |-> is_64, e_machine |-> machine, data |-> data,
     section_headers |-> Table(shdrs), syms |-> syms]

\* the byte of the image at a file offset inside a section's data: an image of
\* zeros, one where every byte is non-zero and depends on its place, one of
\* 0xff bytes, and two where one byte of every eight is non-zero
ImageByte(data, off) ==
    CASE data = "zero" -> 0
      [] data = "ramp" -> (off % 251) + 1
      [] data = "ones" -> 255
      [] data = "byte3" -> IF off % 8 = 3 THEN 255 ELSE 0
      [] data = "byte7" -> IF off % 8 = 7 THEN 255 ELSE 0

Machines == {"X86_64", "AARCH64", "RISCV", "LOONGARCH"}

\* sequences over S of length at most n
RECURSIVE SeqsUpTo(_, _)
SeqsUpTo(S, n) ==
    IF n = 0 THEN {<<>>}
    ELSE LET shorter == SeqsUpTo(S, n - 1)
         IN shorter \cup {Append(q, x) : q \in {t \in shorter : Len(t) = n - 1}, x \in S}


\* ------------------------------------------------------------------------
\* The images the loader is run on
\* ------------------------------------------------------------------------

\* the longest symbol table (after the null symbol) and the longest first
\* relocation section of the images
MaxSyms == 2
MaxRela == 2

\* Images that differ in what ModuleLoader::new and pre_read_modinfo look at:
\* the ELF class, the machine, the .modinfo section, and whether there is a
\* relocation section at all.
EntryImages ==
    { Elf(TRUE, is_64, m, "zero",
          <<NullShdr, Text(4)>> \o rs \o <<GoodThisModule>> \o mi, <<NullSym>>) :
        is_64 \in BOOLEAN, m \in Machines \cup {"S390"},
        rs \in { <<>>, <<RelaShdr(".rela.text", "RELA", 1, <<Rela(0, 0, 0, ZERO64)>>)>> },
        mi \in { <<>> } \cup { <<ModinfoShdr(t)>> : t \in ModinfoChoices } }
    \cup { Elf(FALSE, TRUE, "X86_64", "zero", <<NullShdr>>, <<NullSym>>) }

FlagChoices ==
    { {}, {"ALLOC"}, {"WRITE"}, {"ALLOC", "WRITE"}, {"ALLOC", "EXECINSTR"},
      {"ALLOC", "WRITE", "EXECINSTR"} }

SecChoices ==
    { Shdr(".sec", t, f, sz, 0, <<>>, <<>>) :
        t \in {"PROGBITS", "NOBITS"}, f \in FlagChoices, sz \in {0, 4, PAGE_SIZE + 1} }

\* Images that differ in their allocatable sections and in .gnu.linkonce.this_module.
LayoutImages ==
    { Elf(TRUE, TRUE, "X86_64", d, <<NullShdr, a, b>> \o tm \o <<GoodModinfo>>, <<NullSym>>) :
        d \in {"zero", "ramp"}, a \in SecChoices,
        b \in { Text(PAGE_SIZE),
                Shdr(".bss", "NOBITS", {"ALLOC", "WRITE"}, 8, 0, <<>>, <<>>),
                Shdr(".comment", "PROGBITS", {}, 8, 0, <<>>, <<>>) },
        tm \in { <<>>, <<GoodThisModule>>, <<ThisModule(8, {"ALLOC", "WRITE"})>>,
                 <<ThisModule(SizeOfModule, {})>> } }

SymChoices ==
    { Sym("printk", SHN_UNDEF, ZERO64),
      Sym("abs", SHN_ABS, U64(8)),
      Sym("common", SHN_COMMON, U64(8)),
      Sym("f", 1, U64(4)),
      Sym("d", 2, Neg64(U64(16))),
      Sym("c", 3, U64(16)),
      Sym("bad", 40, U64(16)) }

\* Images that differ in their symbol table.
SymbolImages ==
    { Elf(TRUE, TRUE, "X86_64", "zero",
          <<NullShdr, Text(8), Shdr(".data", "PROGBITS", {"ALLOC", "WRITE"}, PAGE_SIZE + 1, 0, <<>>, <<>>),
            Shdr(".comment", "PROGBITS", {}, 16, 0, <<>>, <<>>), GoodThisModule, GoodModinfo>>,
          <<NullSym>> \o q) :
        q \in SeqsUpTo(SymChoices, MaxSyms) }

\* the symbol table of the images that differ in their relocations:
\* 1 = a function at .text+4, 2 = an undefined name, 3 = the absolute value 2^32
RelocSyms ==
    <<NullSym, Sym("f", 1, U64(4)), Sym("printk", SHN_UNDEF, ZERO64),
      Sym("abs", SHN_ABS, <<0, 0, 1, 0>>)>>

\* The relocation entries an image of each machine is given: r_info's type
\* number as the machine's enum numbers it.
RelaChoices(m) ==
    CASE m = "X86_64" ->
           { Rela(0, 0, 0, ZERO64),             \* R_X86_64_NONE
             Rela(1, 1, 0, ZERO64),             \* R_X86_64_64 of f
             Rela(11, 3, 8, ZERO64),            \* R_X86_64_32S of 2^32
             Rela(2, 2, 4, Neg64(U64(4))),      \* R_X86_64_PC32 of printk - 4
             Rela(3, 1, 8, ZERO64),             \* R_X86_64_GOT32
             Rela(99, 1, 8, ZERO64) }           \* no relocation type
      [] m = "AARCH64" ->
           { Rela(0, 0, 0, ZERO64),             \* R_ARM_NONE
             Rela(257, 1, 0, ZERO64),           \* R_AARCH64_ABS64 of f
             Rela(283, 1, 8, ZERO64),           \* R_AARCH64_CALL26 of f
             Rela(282, 2, 12, ZERO64),          \* R_AARCH64_JUMP26 of printk
             Rela(1027, 1, 8, ZERO64),          \* R_AARCH64_RELATIVE
             Rela(99, 1, 8, ZERO64) }           \* no relocation type
      [] m = "LOONGARCH" ->
           { Rela(2, 1, 0, ZERO64),             \* R_LARCH_64 of f
             Rela(66, 1, 8, U64(4)),            \* R_LARCH_B26 of f + 4
             Rela(66, 2, 8, ZERO64),            \* R_LARCH_B26 of printk
             Rela(29, 2, 8, ZERO64),            \* R_LARCH_SOP_PUSH_PLT_PCREL of printk
             Rela(75, 1, 8, ZERO64),            \* R_LARCH_GOT_PC_HI20
             Rela(3, 1, 8, ZERO64),             \* R_LARCH_RELATIVE
             Rela(200, 1, 8, ZERO64) }          \* no relocation type
      [] OTHER ->
           { Rela(0, 0, 0, ZERO64),
             Rela(2, 1, 0, ZERO64) }

\* the second relocation section of an image
SecondRela(m) ==
    LET e == CHOOSE x \in RelaChoices(m) : x.sym = 1 /\ x.r_offset = 0
    IN { <<>>,
         <<RelaShdr(".rel.text", "REL", 1, <<e>>)>>,
         <<RelaShdr(".rela.none", "RELA", 99, <<e>>)>>,
         <<RelaShdr(".rela.null", "RELA", 0, <<e>>)>>,
         <<RelaShdr(".rela.text2", "RELA", 1, <<e>>)>> }

\* Images that differ in their relocation sections: the first one relocates
\* .text; the second one is absent, of type SHT_REL, names no section, names a
\* section that is not allocated, or relocates .text as well.
RelocImages ==
    UNION { { Elf(TRUE, TRUE, m, d,
                  <<NullShdr, Text(16), RelaShdr(".rela.text", "RELA", 1, r1)>> \o r2
                      \o <<GoodThisModule, GoodModinfo>>,
                  RelocSyms) :
                d \in (IF m = "X86_64" THEN {"zero", "ramp"} ELSE {"zero"}),
                r1 \in SeqsUpTo(RelaChoices(m), MaxRela),
                r2 \in SecondRela(m) } :
            m \in Machines \cup {"S390"} }

\* the values S+A of the x86-64 images below: the ends of the ranges of the
\* 32-bit kinds, as absolute values and as distances from .text (0x10000)
X86Values ==
    { ZERO64, U64(1), <<65535, 32767, 0, 0>>, <<0, 32768, 0, 0>>,
      <<65535, 65535, 0, 0>>, <<0, 0, 1, 0>>, <<5, 0, 1, 0>>,
      Not64(ZERO64), <<0, 32768, 65535, 65535>>, <<65535, 32767, 65535, 65535>>,
      <<65535, 32768, 0, 0>>, <<0, 32769, 0, 0>>,
      <<0, 32769, 65535, 65535>>, <<65535, 32768, 65535, 65535>>,
      <<65535, 65535, 65535, 32767>>, <<0, 0, 0, 32768>>, <<5, 1, 0, 0>> }

\* Images with one x86-64 relocation of a sized kind against an absolute
\* symbol, at .text+0 or .text+4, over target bytes that are zero or not.
X86RangeImages ==
    { Elf(TRUE, TRUE, "X86_64", d,
          <<NullShdr, Text(16), RelaShdr(".rela.text", "RELA", 1, <<Rela(kind, 1, off, ZERO64)>>),
            GoodThisModule, GoodModinfo>>,
          <<NullSym, Sym("abs", SHN_ABS, v)>>) :
        d \in {"zero", "byte3", "byte7"},
        kind \in {1, 2, 4, 10, 11, 24},
        off \in {0, 4},
        v \in X86Values }

\* the PC-relative kinds of the AArch64 and LoongArch engines (type numbers)
PcRelKinds(m) ==
    IF m = "AARCH64"
    THEN {260, 261, 262, 273, 274, 275, 276, 279, 280, 282, 283} \cup (287 .. 293)
    ELSE {22, 71, 72, 73, 74, 99, 109}

\* the values S+A of the images below: near .text (0x10000), before it, at the
\* end of a page, 2^15, 2^20 and 2^27 bytes after it, and far from it
PcRelValues ==
    { U64(65540), U64(77820), U64(98304), U64(65528), <<0, 17, 0, 0>>, <<0, 2049, 0, 0>>,
      KernelAddr, <<65280, 65535, 65535, 32767>> }

\* Images with one PC-relative relocation against an absolute symbol, at the
\* start or at the last eight bytes of the page of .text.
PcRelImages ==
    UNION { { Elf(TRUE, TRUE, m, d,
                  <<NullShdr, Text(16),
                    RelaShdr(".rela.text", "RELA", 1, <<Rela(kind, 1, off, ZERO64)>>),
                    GoodThisModule, GoodModinfo>>,
                  <<NullSym, Sym("abs", SHN_ABS, v)>>) :
                d \in {"zero", "ones"},
                kind \in PcRelKinds(m),
                off \in {0, PAGE_SIZE - 8},
                v \in PcRelValues } :
            m \in {"AARCH64", "LOONGARCH"} }

\* the most R_LARCH_SOP_PUSH_ABSOLUTE entries a relocation section of the
\* images below starts with, and the most stack operations that follow them
MaxPush == 17
MaxSop == 1

\* SOP_PUSH_PCREL, SOP_PUSH_ABSOLUTE, SOP_PUSH_DUP, SOP_PUSH_PLT_PCREL, SOP_ADD,
\* SOP_IF_ELSE and SOP_POP_32_U, each of the absolute symbol 5 at .text
StackOps == { Rela(kind, 1, 0, ZERO64) : kind \in {22, 23, 24, 29, 35, 37, 46} }

Pushes(k) == [n \in 1 .. k |-> Rela(23, 1, 0, ZERO64)]

\* LoongArch images with two relocation sections of .text: the first pushes
\* 0 .. MaxPush values and goes on with up to MaxSop stack operations, the
\* second is empty, pushes or pops.
StackImages ==
    { Elf(TRUE, TRUE, "LOONGARCH", "zero",
          <<NullShdr, Text(16),
            RelaShdr(".rela.text", "RELA", 1, Pushes(k) \o ops),
            RelaShdr(".rela.text2", "RELA", 1, second),
            GoodThisModule, GoodModinfo>>,
          <<NullSym, Sym("abs", SHN_ABS, U64(5))>>) :
        k \in 0 .. MaxPush,
        ops \in SeqsUpTo(StackOps, MaxSop),
        second \in {<<>>, <<Rela(23, 1, 0, ZERO64)>>, <<Rela(46, 1, 0, ZERO64)>>} }

\* LoongArch images that push 5, push 3, add, and pop the sum into a word of
\* .text with SOP_POP_32_U or with SOP_POP_32_U_10_12, over words of zeros, of
\* ones, and of bytes that differ
SopChainImages ==
    { Elf(TRUE, TRUE, "LOONGARCH", d,
          <<NullShdr, Text(16),
            RelaShdr(".rela.text", "RELA", 1,
                     <<Rela(23, 1, off, ZERO64), Rela(23, 2, off, ZERO64),
                       Rela(35, 0, off, ZERO64), Rela(pop, 0, off, ZERO64)>>),
            GoodThisModule, GoodModinfo>>,
          <<NullSym, Sym("five", SHN_ABS, U64(5)), Sym("three", SHN_ABS, U64(3))>>) :
        d \in {"zero", "ones", "ramp", "byte3"},
        off \in {0, 4, 8},
        pop \in {46, 39} }

\* the values popped by the images below: the ends of the ranges of 12, 16, 18,
\* 23 and 28 signed bits and of 12 unsigned bits, values that are not multiples
\* of 4, and values far outside
PopMagnitudes ==
    {0, 1, 4, 6, 2047, 2048, 2049, 4095, 4096, 32764, 32767, 32768, 32769, 32772,
     131068, 131070, 131072, 131076, 4194300, 4194304, 4194308,
     134217724, 134217728, 134217732}

PopValues ==
    { U64(n) : n \in PopMagnitudes } \cup { Neg64(U64(n)) : n \in PopMagnitudes }
        \cup { <<0, 0, 1, 0>>, <<0, 0, 0, 32768>> }

\* LoongArch images that push one value and pop it into a word of .text with
\* SOP_POP_32_U_10_12, S_10_12, S_10_16, S_10_16_S2 or S_0_10_10_16_S2
PopImages ==
    { Elf(TRUE, TRUE, "LOONGARCH", d,
          <<NullShdr, Text(16),
            RelaShdr(".rela.text", "RELA", 1,
                     <<Rela(23, 1, 4, ZERO64), Rela(pop, 0, 4, ZERO64)>>),
            GoodThisModule, GoodModinfo>>,
          <<NullSym, Sym("abs", SHN_ABS, v)>>) :
        d \in {"zero", "ones", "ramp"},
        pop \in {39, 40, 41, 42, 45},
        v \in PopValues }

\* the operands of the images below: small values, shift amounts at and past
\* the width of a word, negative values, the least and the greatest i64
SopOperands ==
    { U64(0), U64(1), U64(3), U64(5), U64(63), U64(64), U64(65),
      Neg64(U64(1)), Neg64(U64(8)), <<0, 0, 0, 32768>>, <<65535, 65535, 65535, 32767>> }

\* LoongArch images that push x and y and apply SOP_SUB, SOP_SL, SOP_SR,
\* SOP_ADD or SOP_AND to them
SopBinaryImages ==
    { Elf(TRUE, TRUE, "LOONGARCH", "zero",
          <<NullShdr, Text(16),
            RelaShdr(".rela.text", "RELA", 1,
                     <<Rela(23, 1, 0, ZERO64), Rela(23, 2, 0, ZERO64),
                       Rela(kind, 0, 0, ZERO64)>>),
            GoodThisModule, GoodModinfo>>,
          <<NullSym, Sym("x", SHN_ABS, x), Sym("y", SHN_ABS, y)>>) :
        kind \in {32, 33, 34, 35, 36}, x \in SopOperands, y \in SopOperands }

\* LoongArch images that push c, 5 and 3 and apply SOP_IF_ELSE or SOP_PUSH_DUP
SopTernaryImages ==
    { Elf(TRUE, TRUE, "LOONGARCH", "zero",
          <<NullShdr, Text(16),
            RelaShdr(".rela.text", "RELA", 1,
                     <<Rela(23, 3, 0, ZERO64), Rela(23, 1, 0, ZERO64),
                       Rela(23, 2, 0, ZERO64), Rela(kind, 0, 0, ZERO64)>>),
            GoodThisModule, GoodModinfo>>,
          <<NullSym, Sym("a", SHN_ABS, U64(5)), Sym("b", SHN_ABS, U64(3)),
            Sym("c", SHN_ABS, c)>>) :
        kind \in {37, 24}, c \in {U64(0), U64(1), <<0, 0, 0, 32768>>} }

\* AArch64 images with one relocation of an absolute kind that is checked for
\* overflow (ABS32, ABS16, MOVW_UABS_G0, MOVW_SABS_G0) against an absolute
\* symbol, over target bytes that are zero or 0xff
Aarch64AbsImages ==
    { Elf(TRUE, TRUE, "AARCH64", d,
          <<NullShdr, Text(16),
            RelaShdr(".rela.text", "RELA", 1, <<Rela(kind, 1, 0, ZERO64)>>),
            GoodThisModule, GoodModinfo>>,
          <<NullSym, Sym("abs", SHN_ABS, v)>>) :
        d \in {"zero", "ones"},
        kind \in {258, 259, 263, 270},
        v \in { U64(4660), <<0, 1, 0, 0>>, <<4660, 1, 0, 0>>, <<0, 0, 1, 0>>,
                <<4660, 22136, 1, 0>>, Neg64(U64(1)), Neg64(<<4660, 1, 0, 0>>) } }

Images ==
    EntryImages \cup LayoutImages \cup SymbolImages \cup RelocImages \cup X86RangeImages
        \cup PcRelImages \cup StackImages \cup SopChainImages \cup PopImages
        \cup SopBinaryImages \cup SopTernaryImages \cup Aarch64AbsImages


\* ------------------------------------------------------------------------
\* State
\* ------------------------------------------------------------------------

VARIABLES
    elf,        \* ModuleLoader.elf: the parsed image; layout updates sh_addr in it
    pc,         \* where load_module stands, then what became of the owner
    result,     \* what ModuleLoader::new / load_module returned: "none", "Ok" or the ModuleErr
    owner,      \* ModuleOwner: name, module_info, pages, module
    regions,    \* the host's memory: every region vmalloc has handed out
    load_info,  \* ModuleLoadInfo.syms, as far as simplify_symbols has built it
    i,          \* the index of the loop the step is in (section, symbol or page)
    j,          \* the index of the next entry of relocation section i
    rela_stack, \* the LoongArch relocation stack (rela_stack[0 .. rela_stack_top))
    steps,      \* the steps of load_module entered so far, in order
    host,       \* the calls made on the host so far, in order
    applied,    \* the relocation entries handed to the architecture so far, in order
    calls,      \* what call_init / call_exit have done on the owner
    call,       \* the arguments of the call of parse_args under way
    args,       \* parse_args: the rest of the argument buffer
    dispatched, \* the (param, val) pairs handed to parse_one so far, in order
    set_calls,  \* the calls of setters made so far, in order
    set_rets,   \* what each of these calls returned
    ret,        \* what parse_args returned: "none", Ok(leftover) or Err(errno)
    ppc,        \* where parse_args stands
    store,      \* the storage the declared parameters point to, one slot each
    heap        \* the CStrings the string setter has allocated, freed ones included

vars == <<elf, pc, result, owner, regions, load_info, i, j, rela_stack, steps, host,
          applied, calls>>

pvars == <<call, args, dispatched, set_calls, set_rets, ret, ppc, store, heap>>

\* Module::default(): no entry points
DefaultModule == [init |-> None, exit |-> None]

NoOwner == [name |-> "", module_info |-> <<>>, pages |-> <<>>, module |-> DefaultModule]

\* no call of parse_args is under way
NoCall ==
    [tokens |-> <<>>, space |-> [lead |-> <<>>, sep |-> <<>>, trail |-> <<>>],
     params |-> <<>>, min_level |-> 0, max_level |-> 0, args |-> <<>>]

NoCalls ==
    [init_runs |-> 0, exit_runs |-> 0, attempts |-> 0, init_attempts |-> 0,
     exit_attempts |-> 0,
     last |-> [op |-> "none", nth |-> 0, invoked |-> FALSE, ret |-> "none"]]

\* One call on the host. `at` is the region (vmalloc, change_perms, flush_cache,
\* free) or the symbol index (resolve_symbol) the call is about.
HostCall(op, at, size, perms, ok, val) ==
    [op |-> op, at |-> at, size |-> size, perms |-> perms, ok |-> ok, val |-> val]

\* The section header with ELF index n (the table is 0-based in the source).
Section(n) == elf.section_headers[n + 1]

NumSections == Len(elf.section_headers)

Init ==
    /\ elf \in Images
    /\ pc = "new"
    /\ result = "none"
    /\ owner = NoOwner
    /\ regions = <<>>
    /\ load_info = <<>>
    /\ i = 0
    /\ j = 0
    /\ rela_stack = <<>>
    /\ steps = <<>>
    /\ host = <<>>
    /\ applied = <<>>
    /\ calls = NoCalls
    /\ call = NoCall
    /\ args = <<>>
    /\ dispatched = <<>>
    /\ set_calls = <<>>
    /\ set_rets = <<>>
    /\ ret = "none"
    /\ ppc = "idle"
    /\ store = <<>>
    /\ heap = <<>>

\* ------------------------------------------------------------------------
\* The host's memory
\* ------------------------------------------------------------------------

\* where the host places its k-th region (k from 0): page-aligned, disjoint
ProviderBase(k) == U64(16 * PAGE_SIZE + 4 * PAGE_SIZE * k)

\* A fresh region: zero-filled. src_off/src_len name the image bytes copied to
\* its start, patch the bytes written into it since.
NewRegion(k, size) ==
    [base |-> ProviderBase(k), size |-> size, live |-> TRUE, frees |-> 0,
     src_off |-> 0, src_len |-> 0, patch |-> [o \in {} |-> 0]]

\* the byte at offset o of a region
ByteAt(r, o) ==
    IF o \in DOMAIN r.patch THEN r.patch[o]
    ELSE IF o < r.src_len THEN ImageByte(elf.data, r.src_off + o)
    ELSE 0

\* the live region an address lies in (0: none)
RegionOf(mem, loc) ==
    LET hit == { k \in 1 .. Len(mem) :
                   /\ mem[k].live
                   /\ ~ULess(loc, mem[k].base)
                   /\ ULess(loc, wrapping_add(mem[k].base, U64(mem[k].size))) }
    IN IF hit = {} THEN 0 ELSE CHOOSE k \in hit : TRUE

OffsetIn(mem, loc) == ToNat(wrapping_sub(loc, mem[RegionOf(mem, loc)].base))

\* Ptr::as_slice::<u8>(n) / Ptr::read: the n bytes at an address
MemRead(mem, loc, n) ==
    [b \in 0 .. n - 1 |-> ByteAt(mem[RegionOf(mem, loc)], OffsetIn(mem, loc) + b)]

\* Ptr::write: n bytes stored at an address
MemWrite(mem, loc, n, bytes) ==
    LET k == RegionOf(mem, loc)
        off == OffsetIn(mem, loc)
    IN [mem EXCEPT ![k].patch =
            [o \in DOMAIN @ \cup (off .. off + n - 1) |->
                IF o \in off .. off + n - 1 THEN bytes[o - off] ELSE @[o]]]

\* the word of n little-endian bytes (n = 4 or 8)
FromLeBytes(bytes, n) ==
    LET B(k) == IF k < n THEN bytes[k] ELSE 0
    IN <<B(0) + 256 * B(1), B(2) + 256 * B(3), B(4) + 256 * B(5), B(6) + 256 * B(7)>>

\* a drop that forgets the first page of the Vec
DropPages_but_first(pages, mem) ==
    [k \in 1 .. Len(mem) |->
        IF \E p \in 2 .. Len(pages) : pages[p].addr = k
        THEN [mem[k] EXCEPT !.live = FALSE, !.frees = @ + 1]
        ELSE mem[k]]

\* Dropping a Vec<SectionPages>: every page's region handle is dropped, in
\* order, and the host releases the region.
RECURSIVE DropPages(_, _)
DropPages(pages, mem) ==
    IF pages = <<>> THEN mem
    ELSE DropPages(Tail(pages),
                   [mem EXCEPT ![Head(pages).addr].live = FALSE,
                               ![Head(pages).addr].frees = @ + 1])

FreeCalls(pages) ==
    [k \in 1 .. Len(pages) |-> HostCall("free", pages[k].addr, 0, {}, TRUE, ZERO64)]

\* load_module returns Err(e) through `?`: the owner it holds is dropped.
Fail(e) ==
    /\ pc' = "failed"
    /\ result' = e
    /\ regions' = DropPages(owner.pages, regions)
    /\ host' = host \o FreeCalls(owner.pages)
    /\ owner' = [owner EXCEPT !.pages = <<>>]

\* a panic (unwrap, todo!, unimplemented!, panic!, an index out of bounds):
\* load_module returns nothing
Panic ==
    /\ pc' = "panicked"
    /\ UNCHANGED <<result, regions, host, owner>>


\* ------------------------------------------------------------------------
\* ModuleLoader::new and load_module, step by step
\* ------------------------------------------------------------------------

\* load_module with the Module read before the relocations are applied
load_module_reads_first(step) ==
    CASE step = "new" -> "modinfo"
      [] step = "modinfo" -> "layout"
      [] step = "layout" -> "simplify"
      [] step = "simplify" -> "this_module"
      [] step = "this_module" -> "reloc"
      [] step = "reloc" -> "perms"
      [] step = "perms" -> "loaded"

\* load_module: the step it takes when `step` has returned Ok
load_module(step) ==
    CASE step = "new" -> "modinfo"
      [] step = "modinfo" -> "layout"
      [] step = "layout" -> "simplify"
      [] step = "simplify" -> "reloc"
      [] step = "reloc" -> "this_module"
      [] step = "this_module" -> "perms"
      [] step = "perms" -> "loaded"

\* ModuleLoader::new
new ==
    /\ UNCHANGED pvars
    /\ pc = "new"
    /\ IF ~elf.parses THEN pc' = "failed" /\ result' = "InvalidElf"
       ELSE IF ~elf.is_64 THEN pc' = "failed" /\ result' = "UnsupportedArch"
       ELSE pc' = load_module("new") /\ result' = result
    /\ UNCHANGED <<elf, owner, regions, load_info, i, j, rela_stack, steps, host,
                   applied, calls>>

\* find_section: the ELF index of the first section of that name, or -1
find_section(name) ==
    LET hit == { n \in 0 .. NumSections - 1 : Section(n).name = name }
    IN IF hit = {} THEN -1 ELSE CHOOSE n \in hit : \A m \in hit : n <= m

\* The loop of pre_read_modinfo over the tokens of .modinfo: the pairs added
\* to the ModuleInfo, or the error or panic that ends it.
RECURSIVE read_modinfo(_, _)
read_modinfo(toks, kv) ==
    IF toks = <<>> THEN [status |-> "Ok", kv |-> kv]
    ELSE LET t == Head(toks)
         IN IF ~t.nul THEN [status |-> "panic", kv |-> kv]
            ELSE IF ~t.eq THEN [status |-> "InvalidElf", kv |-> kv]
            ELSE read_modinfo(Tail(toks), Append(kv, <<t.key, t.value>>))

\* a lookup that gives the value of the last pair with that key
get_last(kv, key) ==
    LET hit == { k \in 1 .. Len(kv) : kv[k][1] = key }
    IN IF hit = {} THEN None ELSE Some(kv[CHOOSE k \in hit : \A m \in hit : k >= m][2])

\* ModuleInfo::get: the value of the first pair with that key
get(kv, key) ==
    LET hit == { k \in 1 .. Len(kv) : kv[k][1] = key }
    IN IF hit = {} THEN None ELSE Some(kv[CHOOSE k \in hit : \A m \in hit : k <= m][2])

pre_read_modinfo ==
    /\ UNCHANGED pvars
    /\ pc = "modinfo"
    /\ steps' = Append(steps, "modinfo")
    /\ LET n == find_section(".modinfo")
           info == read_modinfo(Section(n).tokens, <<>>)
           name == get(info.kv, "name")
       IN IF n < 0 THEN Fail("InvalidElf")
          ELSE IF info.status = "panic" THEN Panic
          ELSE IF info.status # "Ok" THEN Fail(info.status)
          ELSE IF name = None THEN Fail("InvalidElf")
          ELSE /\ owner' = [name |-> name[1], module_info |-> info.kv, pages |-> <<>>,
                            module |-> DefaultModule]
               /\ pc' = load_module("modinfo")
               /\ UNCHANGED <<result, regions, host>>
    /\ i' = 0
    /\ UNCHANGED <<elf, load_info, j, rela_stack, applied, calls>>

\* align_up that rounds down
align_up_truncates(addr, align) == (addr \div align) * align

\* align_up(addr, align), align a power of two
align_up(addr, align) == ((addr + align - 1) \div align) * align

\* permissions that leave every section writable
from_elf_flags_writable(sh_flags) ==
    (IF "ALLOC" \in sh_flags THEN {"R"} ELSE {})
    \cup {"W"}
    \cup (IF "EXECINSTR" \in sh_flags THEN {"X"} ELSE {})

\* SectionPerm::from_elf_flags
from_elf_flags(sh_flags) ==
    (IF "ALLOC" \in sh_flags THEN {"R"} ELSE {})
    \cup (IF "WRITE" \in sh_flags THEN {"W"} ELSE {})
    \cup (IF "EXECINSTR" \in sh_flags THEN {"X"} ELSE {})

\* layout_and_allocate: one turn of its loop over the section headers, for
\* section i; past the last section the step returns Ok(()).
layout_and_allocate ==
    /\ UNCHANGED pvars
    /\ pc = "layout"
    /\ steps' = (IF i = 0 THEN Append(steps, "layout") ELSE steps)
    /\ IF i >= NumSections
       THEN /\ pc' = load_module("layout")
            /\ i' = 0
            /\ UNCHANGED <<elf, owner, regions, host, result>>
       ELSE LET shdr == Section(i)
                size == shdr.sh_size
                aligned_size == align_up(size, PAGE_SIZE)
                k == Len(regions) + 1
            IN IF "ALLOC" \notin shdr.sh_flags \/ size = 0
               THEN /\ i' = i + 1
                    /\ UNCHANGED <<elf, pc, owner, regions, host, result>>
               ELSE \E ok \in BOOLEAN :
                      IF ~ok
                      THEN \* vmalloc returned a null region
                           /\ pc' = "failed"
                           /\ result' = "MemoryAllocationFailed"
                           /\ regions' = DropPages(owner.pages, regions)
                           /\ host' = Append(host, HostCall("vmalloc", 0, aligned_size, {}, FALSE, ZERO64))
                                        \o FreeCalls(owner.pages)
                           /\ owner' = [owner EXCEPT !.pages = <<>>]
                           /\ UNCHANGED <<elf, i>>
                      ELSE /\ regions' = Append(regions,
                                  IF shdr.sh_type # "NOBITS"
                                  THEN [NewRegion(k - 1, aligned_size) EXCEPT
                                           !.src_off = shdr.sh_offset, !.src_len = size]
                                  ELSE NewRegion(k - 1, aligned_size))
                           /\ host' = Append(host, HostCall("vmalloc", k, aligned_size, {}, TRUE, ZERO64))
                           /\ owner' = [owner EXCEPT !.pages = Append(@,
                                  [name |-> shdr.name, addr |-> k, size |-> aligned_size,
                                   perms |-> from_elf_flags(shdr.sh_flags)])]
                           /\ elf' = [elf EXCEPT !.section_headers[i + 1].sh_addr = ProviderBase(k - 1)]
                           /\ i' = i + 1
                           /\ UNCHANGED <<pc, result>>
    /\ UNCHANGED <<load_info, j, rela_stack, applied, calls>>

\* what the host's resolve_symbol answers for a name
ResolveChoices == { None, Some(KernelAddr) }

\* the match with the arm of the symbols defined in a section leaving st_value
\* as the offset it is in the image
updated_sym_not_rebased(sym, sym_address) ==
    IF sym.st_shndx = SHN_UNDEF
    THEN IF sym_address # None
         THEN [status |-> "Ok", sym |-> [sym EXCEPT !.st_value = sym_address[1]]]
         ELSE [status |-> "Ok", sym |-> sym]
    ELSE IF sym.st_shndx = SHN_ABS THEN [status |-> "Ok", sym |-> sym]
    ELSE IF sym.st_shndx = SHN_COMMON THEN [status |-> "UnsupportedFeature", sym |-> sym]
    ELSE IF sym.st_shndx >= NumSections THEN [status |-> "panic", sym |-> sym]
    ELSE [status |-> "Ok", sym |-> sym]

\* The match of simplify_symbols on st_shndx for one symbol past the first:
\* the updated symbol, or the error or panic that ends the step. sym_address
\* is the host's answer for the symbol's name (asked for SHN_UNDEF only).
updated_sym(sym, sym_address) ==
    IF sym.st_shndx = SHN_UNDEF
    THEN IF sym_address # None
         THEN [status |-> "Ok", sym |-> [sym EXCEPT !.st_value = sym_address[1]]]
         ELSE [status |-> "Ok", sym |-> sym]
    ELSE IF sym.st_shndx = SHN_ABS THEN [status |-> "Ok", sym |-> sym]
    ELSE IF sym.st_shndx = SHN_COMMON THEN [status |-> "UnsupportedFeature", sym |-> sym]
    ELSE IF sym.st_shndx >= NumSections THEN [status |-> "panic", sym |-> sym]
    ELSE [status |-> "Ok",
          sym |-> [sym EXCEPT !.st_value =
                      wrapping_add(sym.st_value, Section(sym.st_shndx).sh_addr)]]

\* simplify_symbols: one turn of its loop over the symbol table, for symbol i;
\* past the last symbol the step returns Ok(loadinfo). The names of the images
\* are not mangled: rustc_demangle gives them back as they are.
simplify_symbols ==
    /\ UNCHANGED pvars
    /\ pc = "simplify"
    /\ steps' = (IF i = 0 THEN Append(steps, "simplify") ELSE steps)
    /\ IF i >= Len(elf.syms)
       THEN /\ pc' = load_module("simplify")
            /\ i' = 0
            /\ UNCHANGED <<load_info, result, regions, host, owner>>
       ELSE LET sym == elf.syms[i + 1]
            IN IF i = 0
               THEN /\ load_info' = Append(load_info, [sym |-> sym, name |-> ""])
                    /\ i' = i + 1
                    /\ UNCHANGED <<pc, result, regions, host, owner>>
               ELSE \E sym_address \in
                        (IF sym.st_shndx = SHN_UNDEF THEN ResolveChoices ELSE {None}) :
                      LET u == updated_sym(sym, sym_address)
                          asked == IF sym.st_shndx = SHN_UNDEF
                                   THEN <<HostCall("resolve_symbol", i, 0, {},
                                                   sym_address # None,
                                                   IF sym_address = None THEN ZERO64
                                                   ELSE sym_address[1])>>
                                   ELSE <<>>
                      IN IF u.status = "Ok"
                         THEN /\ load_info' = Append(load_info,
                                                     [sym |-> u.sym, name |-> sym.st_name])
                              /\ i' = i + 1
                              /\ host' = host \o asked
                              /\ UNCHANGED <<pc, result, regions, owner>>
                         ELSE IF u.status = "panic"
                         THEN Panic /\ UNCHANGED <<load_info, i>>
                         ELSE Fail(u.status) /\ UNCHANGED <<load_info, i>>
    /\ j' = 0
    /\ UNCHANGED <<elf, rela_stack, applied, calls>>

\* ------------------------------------------------------------------------
\* The relocation engines. Each one is modelled for the relocation kinds the
\* images hold; the outcome of one entry is "Ok", "Err" (a
\* ModuleErr::RelocationFailed value) or "Panic", with the memory and the
\* LoongArch stack it leaves.
\* ------------------------------------------------------------------------

Outcome(res, mem, stack) == [res |-> res, mem |-> mem, stack |-> stack]

\* the type numbers X86_64RelocationType::try_from accepts
R_X86_64_NONE == 0
R_X86_64_64 == 1
R_X86_64_PC32 == 2
R_X86_64_PLT32 == 4
R_X86_64_32 == 10
R_X86_64_32S == 11
R_X86_64_PC64 == 24
X86_64RelocationType == (0 .. 15) \cup {R_X86_64_PC64}

\* the routine with the check of the existing value looking at the first byte only
X86_64_apply_relocation_checks_first_byte(kind, mem, location, target_addr) ==
    LET size == IF kind \in {R_X86_64_64, R_X86_64_PC64} THEN 8 ELSE 4
        value == IF kind \in {R_X86_64_PC32, R_X86_64_PLT32, R_X86_64_PC64}
                 THEN wrapping_sub(target_addr, location) ELSE target_addr
        old == MemRead(mem, location, size)
    IN IF kind = R_X86_64_NONE THEN Outcome("Ok", mem, <<>>)
       ELSE IF kind \notin {R_X86_64_64, R_X86_64_32, R_X86_64_32S, R_X86_64_PC32,
                            R_X86_64_PLT32, R_X86_64_PC64}
       THEN Outcome("Err", mem, <<>>)
       ELSE IF kind = R_X86_64_32 /\ target_addr # AsU32(target_addr)
       THEN Outcome("Err", mem, <<>>)
       ELSE IF kind = R_X86_64_32S /\ target_addr # AsI32(target_addr)
       THEN Outcome("Err", mem, <<>>)
       ELSE IF old[0] # 0 THEN Outcome("Err", mem, <<>>)
       ELSE Outcome("Ok", MemWrite(mem, location, size, LeBytes(value, size)), <<>>)

\* X86_64RelocationType::apply_relocation
X86_64_apply_relocation(kind, mem, location, target_addr) ==
    LET size == IF kind \in {R_X86_64_64, R_X86_64_PC64} THEN 8 ELSE 4
        value == IF kind \in {R_X86_64_PC32, R_X86_64_PLT32, R_X86_64_PC64}
                 THEN wrapping_sub(target_addr, location) ELSE target_addr
        old == MemRead(mem, location, size)
    IN IF kind = R_X86_64_NONE THEN Outcome("Ok", mem, <<>>)
       ELSE IF kind \notin {R_X86_64_64, R_X86_64_32, R_X86_64_32S, R_X86_64_PC32,
                            R_X86_64_PLT32, R_X86_64_PC64}
       THEN Outcome("Err", mem, <<>>)
       ELSE IF kind = R_X86_64_32 /\ target_addr # AsU32(target_addr)
       THEN Outcome("Err", mem, <<>>)
       ELSE IF kind = R_X86_64_32S /\ target_addr # AsI32(target_addr)
       THEN Outcome("Err", mem, <<>>)
       ELSE IF \E b \in 0 .. size - 1 : old[b] # 0 THEN Outcome("Err", mem, <<>>)
       ELSE Outcome("Ok", MemWrite(mem, location, size, LeBytes(value, size)), <<>>)

\* the type numbers Aarch64RelocationType::try_from accepts
R_ARM_NONE == 0
R_AARCH64_NONE == 256
R_AARCH64_ABS64 == 257
R_AARCH64_JUMP26 == 282
R_AARCH64_CALL26 == 283
R_AARCH64_RELATIVE == 1027
R_AARCH64_ABS32 == 258
R_AARCH64_ABS16 == 259
R_AARCH64_PREL64 == 260
R_AARCH64_PREL32 == 261
R_AARCH64_PREL16 == 262
R_AARCH64_MOVW_UABS_G0 == 263
R_AARCH64_MOVW_UABS_G0_NC == 264
R_AARCH64_MOVW_UABS_G1 == 265
R_AARCH64_MOVW_UABS_G1_NC == 266
R_AARCH64_MOVW_UABS_G2 == 267
R_AARCH64_MOVW_UABS_G2_NC == 268
R_AARCH64_MOVW_UABS_G3 == 269
R_AARCH64_MOVW_SABS_G0 == 270
R_AARCH64_MOVW_SABS_G1 == 271
R_AARCH64_MOVW_SABS_G2 == 272
R_AARCH64_LD_PREL_LO19 == 273
R_AARCH64_ADR_PREL_LO21 == 274
R_AARCH64_ADR_PREL_PG_HI21 == 275
R_AARCH64_ADR_PREL_PG_HI21_NC == 276
R_AARCH64_ADD_ABS_LO12_NC == 277
R_AARCH64_LDST8_ABS_LO12_NC == 278
R_AARCH64_TSTBR14 == 279
R_AARCH64_CONDBR19 == 280
R_AARCH64_LDST16_ABS_LO12_NC == 284
R_AARCH64_LDST32_ABS_LO12_NC == 285
R_AARCH64_LDST64_ABS_LO12_NC == 286
R_AARCH64_LDST128_ABS_LO12_NC == 299
R_AARCH64_MOVW_PREL_G0 == 287
R_AARCH64_MOVW_PREL_G0_NC == 288
R_AARCH64_MOVW_PREL_G1 == 289
R_AARCH64_MOVW_PREL_G1_NC == 290
R_AARCH64_MOVW_PREL_G2 == 291
R_AARCH64_MOVW_PREL_G2_NC == 292
R_AARCH64_MOVW_PREL_G3 == 293
Aarch64RelocationType ==
    {R_ARM_NONE, R_AARCH64_RELATIVE} \cup (256 .. 280) \cup (282 .. 293) \cup {299}

\* AARCH64_BREAK_FAULT = 0xd4202000
AARCH64_BREAK_FAULT == <<8192, 54304, 0, 0>>

\* aarch64_get_imm_shift_mask: the shift and the width of the mask of the
\* immediate types the relocations use
aarch64_get_imm_shift_mask(imm_type) ==
    CASE imm_type = "IMM_26" -> [shift |-> 0, width |-> 26]
      [] imm_type = "IMM_19" -> [shift |-> 5, width |-> 19]
      [] imm_type = "IMM_16" -> [shift |-> 5, width |-> 16]
      [] imm_type = "IMM_14" -> [shift |-> 5, width |-> 14]
      [] imm_type = "IMM_12" -> [shift |-> 10, width |-> 12]

\* aarch64_insn_encode_immediate: AARCH64_INSN_IMM_ADR puts imm[1:0] at bits
\* 30:29 and imm[20:2] at bits 23:5
aarch64_insn_encode_immediate(imm_type, insn, imm) ==
    IF insn = AARCH64_BREAK_FAULT THEN insn
    ELSE IF imm_type = "IMM_ADR"
    THEN SetField(SetField(insn, 29, 2, imm), 5, 19, Sar64(imm, 2))
    ELSE LET sm == aarch64_get_imm_shift_mask(imm_type)
         IN SetField(insn, sm.shift, sm.width, imm)

\* do_reloc with the place of RELOC_OP_PREL taken at the start of its page
do_reloc_prel_from_page(op, location, address) ==
    CASE op = "RELOC_OP_ABS" -> address
      [] op = "RELOC_OP_PREL" -> wrapping_sub(address, ClearLowBits(location, 12))
      [] op = "RELOC_OP_PAGE" ->
            wrapping_sub(ClearLowBits(address, 12), ClearLowBits(location, 12))
      [] OTHER -> ZERO64

\* do_reloc
do_reloc(op, location, address) ==
    CASE op = "RELOC_OP_ABS" -> address
      [] op = "RELOC_OP_PREL" -> wrapping_sub(address, location)
      [] op = "RELOC_OP_PAGE" ->
            wrapping_sub(ClearLowBits(address, 12), ClearLowBits(location, 12))
      [] OTHER -> ZERO64

\* reloc_data: the value is stored before the range is looked at
reloc_data(op, mem, location, address, len) ==
    LET s_addr == do_reloc(op, location, address)
        ovf == CASE len = 16 /\ op = "RELOC_OP_ABS" ->
                      SLess(s_addr, ZERO64) \/ SLess(U64(65535), s_addr)
                 [] len = 16 /\ op # "RELOC_OP_ABS" ->
                      SLess(s_addr, Neg64(U64(32768))) \/ SLess(U64(32767), s_addr)
                 [] len = 32 /\ op = "RELOC_OP_ABS" ->
                      SLess(s_addr, ZERO64) \/ SLess(<<65535, 65535, 0, 0>>, s_addr)
                 [] len = 32 /\ op # "RELOC_OP_ABS" ->
                      \/ SLess(s_addr, <<0, 32768, 65535, 65535>>)
                      \/ SLess(<<65535, 32767, 0, 0>>, s_addr)
                 [] OTHER -> FALSE
    IN [mem |-> MemWrite(mem, location, len \div 8, LeBytes(s_addr, len \div 8)),
        ovf |-> ovf]

\* reloc_insn_movw
reloc_insn_movw(op, mem, location, address, lsb, imm_type) ==
    LET insn == FromLeBytes(MemRead(mem, location, 4), 4)
        s_addr == do_reloc(op, location, address)
        movnz == imm_type = "IMM_MOVNZ"
        opcode == IF ~movnz THEN insn
                  ELSE IF ~IsNeg64(s_addr) THEN SetField(insn, 29, 2, U64(2))
                  ELSE SetField(insn, 29, 2, ZERO64)
        imm == IF movnz /\ IsNeg64(s_addr) THEN Not64(Sar64(s_addr, lsb))
               ELSE Sar64(s_addr, lsb)
    IN [mem |-> MemWrite(mem, location, 4,
                         LeBytes(aarch64_insn_encode_immediate("IMM_16", opcode, imm), 4)),
        ovf |-> ULess(U64(65535), imm)]

\* a reloc_insn_imm that looks at the range first and patches the instruction
\* of a value that fits only
reloc_insn_imm_checks_first(op, mem, location, address, lsb, len, imm_type) ==
    LET insn == FromLeBytes(MemRead(mem, location, 4), 4)
        s_addr == Sar64(do_reloc(op, location, address), lsb)
        imm == LowBits(s_addr, len)
        upper == Sar64(ClearLowBits(s_addr, len - 1), len - 1)
        ovf == ~ULess(wrapping_add(upper, U64(1)), U64(2))
    IN [mem |-> IF ovf THEN mem
                ELSE MemWrite(mem, location, 4,
                              LeBytes(aarch64_insn_encode_immediate(imm_type, insn, imm), 4)),
        ovf |-> ovf]

\* reloc_insn_imm: the memory after the instruction is patched, and whether
\* the value overflowed the field
reloc_insn_imm(op, mem, location, address, lsb, len, imm_type) ==
    LET insn == FromLeBytes(MemRead(mem, location, 4), 4)
        s_addr == Sar64(do_reloc(op, location, address), lsb)
        imm == LowBits(s_addr, len)
        upper == Sar64(ClearLowBits(s_addr, len - 1), len - 1)
    IN [mem |-> MemWrite(mem, location, 4,
                         LeBytes(aarch64_insn_encode_immediate(imm_type, insn, imm), 4)),
        ovf |-> ~ULess(wrapping_add(upper, U64(1)), U64(2))]

\* reloc_insn_adrp: is_forbidden_offset_for_adrp is always false
reloc_insn_adrp(mem, location, address) ==
    reloc_insn_imm("RELOC_OP_PAGE", mem, location, address, 12, 21, "IMM_ADR")

\* the arm of the match of apply_relocation a kind takes: the primitive, its
\* arguments and whether check_overflow stays true
Aarch64Arm(kind) ==
    LET Data(op, len, check) ==
            [prim |-> "data", op |-> op, lsb |-> 0, len |-> len, t |-> "", check |-> check]
        Movw(op, lsb, t, check) ==
            [prim |-> "movw", op |-> op, lsb |-> lsb, len |-> 0, t |-> t, check |-> check]
        Imm(op, lsb, len, t, check) ==
            [prim |-> "imm", op |-> op, lsb |-> lsb, len |-> len, t |-> t, check |-> check]
    IN CASE kind = R_AARCH64_ABS64 -> Data("RELOC_OP_ABS", 64, FALSE)
         [] kind = R_AARCH64_ABS32 -> Data("RELOC_OP_ABS", 32, TRUE)
         [] kind = R_AARCH64_ABS16 -> Data("RELOC_OP_ABS", 16, TRUE)
         [] kind = R_AARCH64_PREL64 -> Data("RELOC_OP_PREL", 64, FALSE)
         [] kind = R_AARCH64_PREL32 -> Data("RELOC_OP_PREL", 32, TRUE)
         [] kind = R_AARCH64_PREL16 -> Data("RELOC_OP_PREL", 16, TRUE)
         [] kind = R_AARCH64_MOVW_UABS_G0 -> Movw("RELOC_OP_ABS", 0, "IMM_MOVKZ", TRUE)
         [] kind = R_AARCH64_MOVW_UABS_G0_NC -> Movw("RELOC_OP_ABS", 0, "IMM_MOVKZ", FALSE)
         [] kind = R_AARCH64_MOVW_UABS_G1 -> Movw("RELOC_OP_ABS", 16, "IMM_MOVKZ", TRUE)
         [] kind = R_AARCH64_MOVW_UABS_G1_NC -> Movw("RELOC_OP_ABS", 16, "IMM_MOVKZ", FALSE)
         [] kind = R_AARCH64_MOVW_UABS_G2 -> Movw("RELOC_OP_ABS", 32, "IMM_MOVKZ", TRUE)
         [] kind = R_AARCH64_MOVW_UABS_G2_NC -> Movw("RELOC_OP_ABS", 32, "IMM_MOVKZ", FALSE)
         [] kind = R_AARCH64_MOVW_UABS_G3 -> Movw("RELOC_OP_ABS", 48, "IMM_MOVKZ", FALSE)
         [] kind = R_AARCH64_MOVW_SABS_G0 -> Movw("RELOC_OP_ABS", 0, "IMM_MOVNZ", TRUE)
         [] kind = R_AARCH64_MOVW_SABS_G1 -> Movw("RELOC_OP_ABS", 16, "IMM_MOVNZ", TRUE)
         [] kind = R_AARCH64_MOVW_SABS_G2 -> Movw("RELOC_OP_ABS", 32, "IMM_MOVNZ", TRUE)
         [] kind = R_AARCH64_MOVW_PREL_G0 -> Movw("RELOC_OP_PREL", 0, "IMM_MOVNZ", TRUE)
         [] kind = R_AARCH64_MOVW_PREL_G0_NC -> Movw("RELOC_OP_PREL", 0, "IMM_MOVKZ", FALSE)
         [] kind = R_AARCH64_MOVW_PREL_G1 -> Movw("RELOC_OP_PREL", 16, "IMM_MOVNZ", TRUE)
         [] kind = R_AARCH64_MOVW_PREL_G1_NC -> Movw("RELOC_OP_PREL", 16, "IMM_MOVKZ", FALSE)
         [] kind = R_AARCH64_MOVW_PREL_G2 -> Movw("RELOC_OP_PREL", 32, "IMM_MOVNZ", TRUE)
         [] kind = R_AARCH64_MOVW_PREL_G2_NC -> Movw("RELOC_OP_PREL", 32, "IMM_MOVKZ", FALSE)
         [] kind = R_AARCH64_MOVW_PREL_G3 -> Movw("RELOC_OP_PREL", 48, "IMM_MOVNZ", FALSE)
         [] kind = R_AARCH64_LD_PREL_LO19 -> Imm("RELOC_OP_PREL", 2, 19, "IMM_19", TRUE)
         [] kind = R_AARCH64_ADR_PREL_LO21 -> Imm("RELOC_OP_PREL", 0, 21, "IMM_ADR", TRUE)
         [] kind = R_AARCH64_ADR_PREL_PG_HI21 ->
                [Imm("RELOC_OP_PAGE", 12, 21, "IMM_ADR", TRUE) EXCEPT !.prim = "adrp"]
         [] kind = R_AARCH64_ADR_PREL_PG_HI21_NC ->
                [Imm("RELOC_OP_PAGE", 12, 21, "IMM_ADR", FALSE) EXCEPT !.prim = "adrp"]
         [] kind \in {R_AARCH64_ADD_ABS_LO12_NC, R_AARCH64_LDST8_ABS_LO12_NC} ->
                Imm("RELOC_OP_ABS", 0, 12, "IMM_12", FALSE)
         [] kind = R_AARCH64_LDST16_ABS_LO12_NC -> Imm("RELOC_OP_ABS", 1, 11, "IMM_12", FALSE)
         [] kind = R_AARCH64_LDST32_ABS_LO12_NC -> Imm("RELOC_OP_ABS", 2, 10, "IMM_12", FALSE)
         [] kind = R_AARCH64_LDST64_ABS_LO12_NC -> Imm("RELOC_OP_ABS", 3, 9, "IMM_12", FALSE)
         [] kind = R_AARCH64_LDST128_ABS_LO12_NC -> Imm("RELOC_OP_ABS", 4, 8, "IMM_12", FALSE)
         [] kind = R_AARCH64_TSTBR14 -> Imm("RELOC_OP_PREL", 2, 14, "IMM_14", TRUE)
         [] kind = R_AARCH64_CONDBR19 -> Imm("RELOC_OP_PREL", 2, 19, "IMM_19", TRUE)
         [] kind \in {R_AARCH64_JUMP26, R_AARCH64_CALL26} ->
                Imm("RELOC_OP_PREL", 2, 26, "IMM_26", TRUE)
         [] OTHER -> [prim |-> "none"]

\* Aarch64RelocationType::apply_relocation. An out-of-range JUMP26 or CALL26
\* reaches unimplemented!() after its instruction was patched; a kind the
\* match does not list returns Err.
Aarch64_apply_relocation(kind, mem, location, address) ==
    LET Verdict(arm, r) ==
            IF kind \in {R_AARCH64_JUMP26, R_AARCH64_CALL26} /\ r.ovf
            THEN Outcome("Panic", r.mem, <<>>)
            ELSE IF arm.check /\ r.ovf THEN Outcome("Err", r.mem, <<>>)
            ELSE Outcome("Ok", r.mem, <<>>)
        Arm(arm) ==
            IF arm.prim = "none" THEN Outcome("Err", mem, <<>>)
            ELSE Verdict(arm,
                         CASE arm.prim = "data" ->
                                 reloc_data(arm.op, mem, location, address, arm.len)
                           [] arm.prim = "movw" ->
                                 reloc_insn_movw(arm.op, mem, location, address, arm.lsb,
                                                 arm.t)
                           [] arm.prim = "imm" ->
                                 reloc_insn_imm(arm.op, mem, location, address, arm.lsb,
                                                arm.len, arm.t)
                           [] arm.prim = "adrp" -> reloc_insn_adrp(mem, location, address))
    IN IF kind \in {R_ARM_NONE, R_AARCH64_NONE} THEN Outcome("Ok", mem, <<>>)
       ELSE Arm(Aarch64Arm(kind))

\* the type numbers Loongarch64RelocationType::try_from accepts
R_LARCH_NONE == 0
R_LARCH_64 == 2
R_LARCH_RELATIVE == 3
R_LARCH_SOP_PUSH_PLT_PCREL == 29
R_LARCH_B26 == 66
R_LARCH_GOT_PC_HI20 == 75
R_LARCH_GOT_PC_LO12 == 76
R_LARCH_32 == 1
R_LARCH_MARK_LA == 20
R_LARCH_MARK_PCREL == 21
R_LARCH_SOP_PUSH_PCREL == 22
R_LARCH_SOP_PUSH_ABSOLUTE == 23
R_LARCH_SOP_PUSH_DUP == 24
R_LARCH_SOP_SUB == 32
R_LARCH_SOP_SL == 33
R_LARCH_SOP_SR == 34
R_LARCH_SOP_ADD == 35
R_LARCH_SOP_AND == 36
R_LARCH_SOP_IF_ELSE == 37
R_LARCH_SOP_POP_32_S_10_5 == 38
R_LARCH_SOP_POP_32_U_10_12 == 39
R_LARCH_SOP_POP_32_S_10_12 == 40
R_LARCH_SOP_POP_32_S_10_16 == 41
R_LARCH_SOP_POP_32_S_10_16_S2 == 42
R_LARCH_SOP_POP_32_S_5_20 == 43
R_LARCH_SOP_POP_32_S_0_5_10_16_S2 == 44
R_LARCH_SOP_POP_32_S_0_10_10_16_S2 == 45
R_LARCH_SOP_POP_32_U == 46
R_LARCH_ADD32 == 50
R_LARCH_ADD64 == 51
R_LARCH_SUB8 == 52
R_LARCH_SUB16 == 53
R_LARCH_SUB24 == 54
R_LARCH_SUB32 == 55
R_LARCH_SUB64 == 56
R_LARCH_PCALA_HI20 == 71
R_LARCH_PCALA_LO12 == 72
R_LARCH_PCALA64_LO20 == 73
R_LARCH_PCALA64_HI12 == 74
R_LARCH_32_PCREL == 99
R_LARCH_64_PCREL == 109
Loongarch64RelocationType == (0 .. 14) \cup (20 .. 58) \cup (64 .. 126)

RELA_STACK_DEPTH == 16

\* SZ_128M = 0x08000000
SZ_128M == <<0, 2048, 0, 0>>

\* signed_imm_check(value, bits)
signed_imm_check(value, bits) ==
    LET upper == Sar64(value, bits - 1) IN upper = ZERO64 \/ upper = Not64(ZERO64)

\* offset < -SZ_128M || offset >= SZ_128M
OutOfReach(offset) == SLess(offset, Neg64(SZ_128M)) \/ ~SLess(offset, SZ_128M)

\* rela_stack_push that takes one value more than the stack holds
rela_stack_push_past_depth(stack, value) ==
    IF Len(stack) > RELA_STACK_DEPTH THEN "Err" ELSE Append(stack, value)

\* rela_stack_push: the stack after the push, or "Err" when it is full
rela_stack_push(stack, value) ==
    IF Len(stack) >= RELA_STACK_DEPTH THEN "Err" ELSE Append(stack, value)

\* reg0i26_format: from_bits, set_immediate_l, set_immediate_h, into_bits.
\* The layout is opcode[31:26] | imm_l[25:10] | imm_h[9:0].
reg0i26_format(instruction, immediate_l, immediate_h) ==
    LET opcode == instruction[2] \div 1024
    IN <<((immediate_l % 64) * 1024 + immediate_h) % Limb,
         opcode * 1024 + (immediate_l \div 64), 0, 0>>

\* unsigned_imm_check(value, bits)
unsigned_imm_check(value, bits) == ULess(value, Shl64(U64(1), bits))

\* i64 `a - b` and `a + b` leave the range of i64: a panic in a build with
\* overflow checks, a wrapped result in a build without them
SubOverflows(a, b) == IsNeg64(a) # IsNeg64(b) /\ IsNeg64(wrapping_sub(a, b)) # IsNeg64(a)
AddOverflows(a, b) == IsNeg64(a) = IsNeg64(b) /\ IsNeg64(wrapping_add(a, b)) # IsNeg64(a)

\* rela_stack_pop: the value popped and the stack left; ok is FALSE (Err) when it
\* is empty
rela_stack_pop(stack) ==
    IF Len(stack) = 0 THEN [ok |-> FALSE, value |-> ZERO64, stack |-> stack]
    ELSE [ok |-> TRUE, value |-> stack[Len(stack)],
          stack |-> SubSeq(stack, 1, Len(stack) - 1)]

\* reg2i12_format, reg1i20_format, reg2i16_format: from_bits, set_immediate,
\* into_bits. The layouts are opcode[31:22] | imm[21:10] | rj | rd,
\* opcode[31:25] | imm[24:5] | rd and opcode[31:26] | imm[25:10] | rj | rd.
reg2i12_format(instruction, immediate) == SetField(instruction, 10, 12, immediate)
reg1i20_format(instruction, immediate) == SetField(instruction, 5, 20, immediate)
reg2i16_format(instruction, immediate) == SetField(instruction, 10, 16, immediate)

\* reg1i21_format: from_bits, set_immediate_l, set_immediate_h, into_bits. The
\* layout is opcode[31:26] | imm_l[25:10] | rj[9:5] | imm_h[4:0].
reg1i21_format(instruction, immediate_l, immediate_h) ==
    SetField(SetField(instruction, 10, 16, immediate_l), 0, 5, immediate_h)

\* apply_r_larch_b26
apply_r_larch_b26(mem, location, address, overflow_checks) ==
    LET offset == wrapping_sub(address, location)
        shifted == Sar64(offset, 2)
        instruction == FromLeBytes(MemRead(mem, location, 4), 4)
        inst == reg0i26_format(instruction, shifted[1], shifted[2] % 1024)
    IN IF overflow_checks /\ SubOverflows(address, location) THEN Outcome("Panic", mem, <<>>)
       ELSE IF OutOfReach(offset) THEN Outcome("Err", mem, <<>>)
       ELSE IF offset[1] % 4 # 0 THEN Outcome("Err", mem, <<>>)
       ELSE IF ~signed_imm_check(offset, 28) THEN Outcome("Err", mem, <<>>)
       ELSE Outcome("Ok", MemWrite(mem, location, 4, LeBytes(inst, 4)), <<>>)

\* apply_r_larch_pcala
apply_r_larch_pcala(kind, mem, stack, location, address, overflow_checks) ==
    LET inst == FromLeBytes(MemRead(mem, location, 4), 4)
        left == ClearLowBits(wrapping_add(address, U64(2048)), 12)
        right == ClearLowBits(location, 12)
        offset_hi20 == AsI32(wrapping_sub(left, right))
        anchor == wrapping_add(right, offset_hi20)
        offset_rem == wrapping_sub(address, anchor)
        overflows == \/ ULess(wrapping_add(address, U64(2048)), address)
                     \/ SubOverflows(left, right)
                     \/ AddOverflows(right, offset_hi20)
                     \/ SubOverflows(address, anchor)
        new_inst_val ==
            CASE kind = R_LARCH_PCALA_LO12 -> reg2i12_format(inst, LowBits(address, 12))
              [] kind = R_LARCH_PCALA_HI20 ->
                    reg1i20_format(inst, LowBits(Sar64(offset_hi20, 12), 20))
              [] kind = R_LARCH_PCALA64_LO20 ->
                    reg1i20_format(inst, LowBits(Sar64(offset_rem, 32), 20))
              [] kind = R_LARCH_PCALA64_HI12 ->
                    reg2i12_format(inst, LowBits(Sar64(offset_rem, 52), 12))
    IN IF overflow_checks /\ overflows THEN Outcome("Panic", mem, stack)
       ELSE Outcome("Ok", MemWrite(mem, location, 4, LeBytes(new_inst_val, 4)), stack)

\* apply_r_larch_32_pcrel and apply_r_larch_64_pcrel: size is 4 or 8
apply_r_larch_pcrel(size, mem, stack, location, address, overflow_checks) ==
    LET offset == wrapping_sub(address, location)
    IN IF overflow_checks /\ SubOverflows(address, location) THEN Outcome("Panic", mem, stack)
       ELSE Outcome("Ok", MemWrite(mem, location, size, LeBytes(offset, size)), stack)

\* apply_r_larch_sop_push_pcrel
apply_r_larch_sop_push_pcrel(mem, stack, location, address, overflow_checks) ==
    LET pushed == rela_stack_push(stack, wrapping_sub(address, location))
    IN IF overflow_checks /\ SubOverflows(address, location) THEN Outcome("Panic", mem, stack)
       ELSE IF pushed = "Err" THEN Outcome("Err", mem, stack)
       ELSE Outcome("Ok", mem, pushed)

\* apply_r_larch_sop_push_plt_pcrel: out of reach it calls module_emit_plt_entry,
\* which is unimplemented!(); in reach it is apply_r_larch_sop_push_pcrel
apply_r_larch_sop_push_plt_pcrel(mem, stack, location, address, overflow_checks) ==
    IF overflow_checks /\ SubOverflows(address, location) THEN Outcome("Panic", mem, stack)
    ELSE IF OutOfReach(wrapping_sub(address, location)) THEN Outcome("Panic", mem, stack)
    ELSE apply_r_larch_sop_push_pcrel(mem, stack, location, address, overflow_checks)

\* apply_r_larch_sop_push_absolute
apply_r_larch_sop_push_absolute(mem, stack, address) ==
    LET pushed == rela_stack_push(stack, address)
    IN IF pushed = "Err" THEN Outcome("Err", mem, stack) ELSE Outcome("Ok", mem, pushed)

\* apply_r_larch_sop_push_dup that pushes the value back once
apply_r_larch_sop_push_dup_once(mem, stack) ==
    LET popped == rela_stack_pop(stack)
        once == rela_stack_push(popped.stack, popped.value)
    IN IF ~popped.ok THEN Outcome("Err", mem, stack)
       ELSE IF once = "Err" THEN Outcome("Err", mem, popped.stack)
       ELSE Outcome("Ok", mem, once)

\* apply_r_larch_sop_push_dup
apply_r_larch_sop_push_dup(mem, stack) ==
    LET popped == rela_stack_pop(stack)
        once == rela_stack_push(popped.stack, popped.value)
        twice == rela_stack_push(once, popped.value)
    IN IF ~popped.ok THEN Outcome("Err", mem, stack)
       ELSE IF once = "Err" THEN Outcome("Err", mem, popped.stack)
       ELSE IF twice = "Err" THEN Outcome("Err", mem, once)
       ELSE Outcome("Ok", mem, twice)

\* apply_r_larch_sop with SOP_ADD taking the difference
apply_r_larch_sop_add_subtracts(kind, mem, stack, overflow_checks) ==
    LET third == IF kind = R_LARCH_SOP_IF_ELSE THEN rela_stack_pop(stack)
                 ELSE [ok |-> TRUE, value |-> ZERO64, stack |-> stack]
        second == rela_stack_pop(third.stack)
        first == rela_stack_pop(second.stack)
        opr1 == first.value
        opr2 == second.value
        opr3 == third.value
        amount == opr2[1] % 64
        bad_amount == IsNeg64(opr2) \/ ~ULess(opr2, U64(64))
        value == CASE kind = R_LARCH_SOP_AND -> And64(opr1, opr2)
                   [] kind = R_LARCH_SOP_ADD -> wrapping_sub(opr1, opr2)
                   [] kind = R_LARCH_SOP_SUB -> wrapping_sub(opr1, opr2)
                   [] kind = R_LARCH_SOP_SL -> Shl64(opr1, amount)
                   [] kind = R_LARCH_SOP_SR -> Sar64(opr1, amount)
                   [] kind = R_LARCH_SOP_IF_ELSE -> IF opr1 # ZERO64 THEN opr2 ELSE opr3
    IN IF ~third.ok THEN Outcome("Err", mem, stack)
       ELSE IF ~second.ok THEN Outcome("Err", mem, third.stack)
       ELSE IF ~first.ok THEN Outcome("Err", mem, second.stack)
       ELSE IF kind \in {R_LARCH_SOP_SL, R_LARCH_SOP_SR} /\ overflow_checks /\ bad_amount
       THEN Outcome("Panic", mem, first.stack)
       ELSE Outcome("Ok", mem, rela_stack_push(first.stack, value))

\* apply_r_larch_sop: `<<` and `>>` by an amount outside 0 .. 63 panic in a
\* build with overflow checks and take the amount modulo 64 in one without
apply_r_larch_sop(kind, mem, stack, overflow_checks) ==
    LET third == IF kind = R_LARCH_SOP_IF_ELSE THEN rela_stack_pop(stack)
                 ELSE [ok |-> TRUE, value |-> ZERO64, stack |-> stack]
        second == rela_stack_pop(third.stack)
        first == rela_stack_pop(second.stack)
        opr1 == first.value
        opr2 == second.value
        opr3 == third.value
        amount == opr2[1] % 64
        bad_amount == IsNeg64(opr2) \/ ~ULess(opr2, U64(64))
        value == CASE kind = R_LARCH_SOP_AND -> And64(opr1, opr2)
                   [] kind = R_LARCH_SOP_ADD -> wrapping_add(opr1, opr2)
                   [] kind = R_LARCH_SOP_SUB -> wrapping_sub(opr1, opr2)
                   [] kind = R_LARCH_SOP_SL -> Shl64(opr1, amount)
                   [] kind = R_LARCH_SOP_SR -> Sar64(opr1, amount)
                   [] kind = R_LARCH_SOP_IF_ELSE -> IF opr1 # ZERO64 THEN opr2 ELSE opr3
    IN IF ~third.ok THEN Outcome("Err", mem, stack)
       ELSE IF ~second.ok THEN Outcome("Err", mem, third.stack)
       ELSE IF ~first.ok THEN Outcome("Err", mem, second.stack)
       ELSE IF kind \in {R_LARCH_SOP_SL, R_LARCH_SOP_SR} /\ overflow_checks /\ bad_amount
       THEN Outcome("Panic", mem, first.stack)
       ELSE Outcome("Ok", mem, rela_stack_push(first.stack, value))

\* apply_r_larch_sop_imm_field: the value is popped, then the kind decides; the
\* kinds S_10_5, S_5_20 and S_0_5_10_16_S2 reach unimplemented!()
apply_r_larch_sop_imm_field(kind, mem, stack, location) ==
    LET popped == rela_stack_pop(stack)
        opr1 == popped.value
        inst == FromLeBytes(MemRead(mem, location, 4), 4)
        shifted == Sar64(opr1, 2)
        Write(word) == Outcome("Ok", MemWrite(mem, location, 4, LeBytes(word, 4)), popped.stack)
        Failed == Outcome("Err", mem, popped.stack)
    IN IF ~popped.ok THEN Outcome("Err", mem, stack)
       ELSE IF kind = R_LARCH_SOP_POP_32_U_10_12
       THEN IF ~unsigned_imm_check(opr1, 12) THEN Failed
            ELSE Write(reg2i12_format(inst, LowBits(opr1, 12)))
       ELSE IF kind = R_LARCH_SOP_POP_32_S_10_12
       THEN IF ~signed_imm_check(opr1, 12) THEN Failed
            ELSE Write(reg2i12_format(inst, LowBits(opr1, 12)))
       ELSE IF kind = R_LARCH_SOP_POP_32_S_10_16
       THEN IF ~signed_imm_check(opr1, 16) THEN Failed
            ELSE Write(reg2i16_format(inst, LowBits(opr1, 16)))
       ELSE IF kind = R_LARCH_SOP_POP_32_S_10_16_S2
       THEN IF opr1[1] % 4 # 0 THEN Failed
            ELSE IF ~signed_imm_check(opr1, 23) THEN Failed
            ELSE Write(reg1i21_format(inst, LowBits(shifted, 16),
                                      LowBits(Sar64(AsU32(shifted), 16), 5)))
       ELSE IF kind = R_LARCH_SOP_POP_32_S_0_10_10_16_S2
       THEN IF opr1[1] % 4 # 0 THEN Failed
            ELSE IF ~signed_imm_check(opr1, 28) THEN Failed
            ELSE Write(reg0i26_format(inst, shifted[1], shifted[2] % 1024))
       ELSE IF kind = R_LARCH_SOP_POP_32_U
       THEN IF ~unsigned_imm_check(opr1, 32) THEN Failed
            ELSE Write(AsU32(opr1))
       ELSE Outcome("Panic", mem, popped.stack)

\* apply_r_larch_add_sub
apply_r_larch_add_sub(kind, mem, stack, location, address) ==
    LET size == IF kind \in {R_LARCH_ADD32, R_LARCH_SUB32} THEN 4 ELSE 8
        original == FromLeBytes(MemRead(mem, location, size), size)
        result_value == IF kind \in {R_LARCH_ADD32, R_LARCH_ADD64}
                        THEN wrapping_add(original, address)
                        ELSE wrapping_sub(original, address)
    IN IF kind \notin {R_LARCH_ADD32, R_LARCH_ADD64, R_LARCH_SUB32, R_LARCH_SUB64}
       THEN Outcome("Err", mem, stack)
       ELSE Outcome("Ok", MemWrite(mem, location, size, LeBytes(result_value, size)), stack)

\* Loongarch64RelocationType::apply_relocation. apply_r_larch_got_pc calls
\* module_emit_got_entry, which is unimplemented!(); so is the arm of the kinds
\* the match does not list.
Loongarch64_apply_relocation(kind, mem, stack, location, address, overflow_checks) ==
    IF kind = R_LARCH_B26
    THEN [apply_r_larch_b26(mem, location, address, overflow_checks) EXCEPT !.stack = stack]
    ELSE IF kind \in {R_LARCH_GOT_PC_HI20, R_LARCH_GOT_PC_LO12}
    THEN Outcome("Panic", mem, stack)
    ELSE IF kind = R_LARCH_SOP_PUSH_PLT_PCREL
    THEN apply_r_larch_sop_push_plt_pcrel(mem, stack, location, address, overflow_checks)
    ELSE IF kind \in {R_LARCH_NONE, R_LARCH_MARK_LA, R_LARCH_MARK_PCREL}
    THEN Outcome("Ok", mem, stack)
    ELSE IF kind = R_LARCH_32
    THEN Outcome("Ok", MemWrite(mem, location, 4, LeBytes(address, 4)), stack)
    ELSE IF kind = R_LARCH_64
    THEN Outcome("Ok", MemWrite(mem, location, 8, LeBytes(address, 8)), stack)
    ELSE IF kind = R_LARCH_SOP_PUSH_PCREL
    THEN apply_r_larch_sop_push_pcrel(mem, stack, location, address, overflow_checks)
    ELSE IF kind = R_LARCH_SOP_PUSH_ABSOLUTE
    THEN apply_r_larch_sop_push_absolute(mem, stack, address)
    ELSE IF kind = R_LARCH_SOP_PUSH_DUP
    THEN apply_r_larch_sop_push_dup(mem, stack)
    ELSE IF kind \in {R_LARCH_SOP_SUB, R_LARCH_SOP_SL, R_LARCH_SOP_SR, R_LARCH_SOP_ADD,
                      R_LARCH_SOP_AND, R_LARCH_SOP_IF_ELSE}
    THEN apply_r_larch_sop(kind, mem, stack, overflow_checks)
    ELSE IF kind \in R_LARCH_SOP_POP_32_S_10_5 .. R_LARCH_SOP_POP_32_U
    THEN apply_r_larch_sop_imm_field(kind, mem, stack, location)
    ELSE IF kind \in {R_LARCH_ADD32, R_LARCH_ADD64, R_LARCH_SUB8, R_LARCH_SUB16,
                      R_LARCH_SUB24, R_LARCH_SUB32, R_LARCH_SUB64}
    THEN apply_r_larch_add_sub(kind, mem, stack, location, address)
    ELSE IF kind \in {R_LARCH_PCALA_HI20, R_LARCH_PCALA_LO12, R_LARCH_PCALA64_LO20,
                      R_LARCH_PCALA64_HI12}
    THEN apply_r_larch_pcala(kind, mem, stack, location, address, overflow_checks)
    ELSE IF kind = R_LARCH_32_PCREL
    THEN apply_r_larch_pcrel(4, mem, stack, location, address, overflow_checks)
    ELSE IF kind = R_LARCH_64_PCREL
    THEN apply_r_larch_pcrel(8, mem, stack, location, address, overflow_checks)
    ELSE Outcome("Panic", mem, stack)

\* One turn of the loop of <Arch>ArchRelocate::apply_relocate_add, for one
\* entry of a relocation section whose sh_info names section `info`.
apply_relocate_add(machine, rela, info, mem, stack, overflow_checks) ==
    LET location == wrapping_add(Section(info).sh_addr, U64(rela.r_offset))
        sym == load_info[rela.sym + 1].sym
        target_addr == wrapping_add(sym.st_value, rela.r_addend)
    IN IF rela.sym >= Len(load_info) THEN Outcome("Panic", mem, stack)
       ELSE IF machine = "X86_64"
       THEN IF rela.kind \notin X86_64RelocationType THEN Outcome("Err", mem, stack)
            ELSE X86_64_apply_relocation(rela.kind, mem, location, target_addr)
       ELSE IF machine = "AARCH64"
       THEN IF rela.kind \notin Aarch64RelocationType THEN Outcome("Err", mem, stack)
            ELSE Aarch64_apply_relocation(rela.kind, mem, location, target_addr)
       ELSE IF rela.kind \notin Loongarch64RelocationType THEN Outcome("Err", mem, stack)
            ELSE Loongarch64_apply_relocation(rela.kind, mem, stack, location, target_addr,
                                              overflow_checks)

\* apply_relocations takes the section up: its sh_info names a section, that
\* section is allocated, and it is of type SHT_RELA
Accepted(shdr) ==
    /\ shdr.sh_info < NumSections
    /\ "ALLOC" \in Section(shdr.sh_info).sh_flags
    /\ shdr.sh_type = "RELA"

\* apply_relocations: one turn of its loop over the section headers when
\* section i is passed over or finished, one turn of the architecture's loop
\* over the entries otherwise; past the last section the step returns Ok(()).
\* overflow_checks is the build: with overflow checks an arithmetic overflow
\* panics, without them it wraps.
apply_relocations ==
    /\ UNCHANGED pvars
    /\ pc = "reloc"
    /\ steps' = (IF i = 0 /\ j = 0 THEN Append(steps, "reloc") ELSE steps)
    /\ IF i >= NumSections
       THEN /\ pc' = load_module("reloc")
            /\ i' = 0
            /\ UNCHANGED <<j, rela_stack, applied, result, regions, host, owner>>
       ELSE LET shdr == Section(i)
            IN IF ~Accepted(shdr)
               THEN /\ i' = i + 1
                    /\ UNCHANGED <<pc, j, rela_stack, applied, result, regions, host, owner>>
               ELSE IF elf.e_machine \notin {"X86_64", "AARCH64", "LOONGARCH"}
               THEN \* todo!() of the RISC-V engine, panic!() of the match
                    /\ Panic
                    /\ UNCHANGED <<i, j, rela_stack, applied>>
               ELSE IF j >= Len(shdr.relas)
               THEN /\ i' = i + 1
                    /\ j' = 0
                    /\ UNCHANGED <<pc, rela_stack, applied, result, regions, host, owner>>
               ELSE \E overflow_checks \in BOOLEAN :
                    LET Applied(out) ==
                            /\ applied' = Append(applied,
                                                 [sec |-> i, ent |-> j, res |-> out.res])
                            /\ rela_stack' = out.stack
                            /\ IF out.res = "Ok"
                               THEN /\ regions' = out.mem
                                    /\ j' = j + 1
                                    /\ UNCHANGED <<pc, i, result, host, owner>>
                               ELSE IF out.res = "Err"
                               THEN /\ pc' = "failed"
                                    /\ result' = "RelocationFailed"
                                    /\ regions' = DropPages(owner.pages, out.mem)
                                    /\ host' = host \o FreeCalls(owner.pages)
                                    /\ owner' = [owner EXCEPT !.pages = <<>>]
                                    /\ UNCHANGED <<i, j>>
                               ELSE /\ pc' = "panicked"
                                    /\ regions' = out.mem
                                    /\ UNCHANGED <<i, j, result, host, owner>>
                    IN Applied(apply_relocate_add(elf.e_machine, shdr.relas[j + 1],
                                                  shdr.sh_info, regions,
                                                  IF j = 0 THEN <<>> ELSE rela_stack,
                                                  overflow_checks))
    /\ UNCHANGED <<elf, load_info, calls>>

\* the entry points a Module read from .gnu.linkonce.this_module can hold
ModuleChoices ==
    { [init |-> a, exit |-> b] :
        a \in {None, Some("init_module")}, b \in {None, Some("cleanup_module")} }

\* post_read_modinfo. The Module is read from the section's runtime address;
\* the images do not spell the struct out, the entry points it holds are an
\* input of this step. A section that was not allocated has the runtime
\* address 0: the read of it is undefined, it may stop the program or give
\* any Module.
post_read_modinfo ==
    /\ UNCHANGED pvars
    /\ pc = "this_module"
    /\ steps' = Append(steps, "this_module")
    /\ LET n == find_section(".gnu.linkonce.this_module")
       IN IF n < 0 THEN Fail("InvalidElf")
          ELSE IF Section(n).sh_size # SizeOfModule THEN Fail("InvalidElf")
          ELSE \/ /\ \E module \in ModuleChoices : owner' = [owner EXCEPT !.module = module]
                  /\ pc' = load_module("this_module")
                  /\ UNCHANGED <<result, regions, host>>
               \/ /\ Section(n).sh_addr = ZERO64
                  /\ Panic
    /\ i' = 0
    /\ UNCHANGED <<elf, load_info, j, rela_stack, applied, calls>>

\* set_section_perms: one turn of its loop over owner.pages, for page i; past
\* the last page load_module returns Ok(owner).
set_section_perms ==
    /\ UNCHANGED pvars
    /\ pc = "perms"
    /\ steps' = (IF i = 0 THEN Append(steps, "perms") ELSE steps)
    /\ IF i >= Len(owner.pages)
       THEN /\ pc' = load_module("perms")
            /\ result' = "Ok"
            /\ UNCHANGED <<i, regions, host, owner>>
       ELSE LET page == owner.pages[i + 1]
            IN \E ok \in BOOLEAN :
                 LET change == HostCall("change_perms", page.addr, page.size, page.perms,
                                        ok, ZERO64)
                     flush == HostCall("flush_cache", page.addr, page.size, {}, TRUE, ZERO64)
                 IN IF ~ok
                    THEN /\ pc' = "failed"
                         /\ result' = "InvalidOperation"
                         /\ regions' = DropPages(owner.pages, regions)
                         /\ host' = Append(host, change) \o FreeCalls(owner.pages)
                         /\ owner' = [owner EXCEPT !.pages = <<>>]
                         /\ i' = i
                    ELSE /\ host' = host \o <<change, flush>>
                         /\ i' = i + 1
                         /\ UNCHANGED <<pc, result, regions, owner>>
    /\ UNCHANGED <<elf, load_info, j, rela_stack, applied, calls>>

\* the caller drops the ModuleOwner load_module returned
drop_owner ==
    /\ UNCHANGED pvars
    /\ pc = "loaded"
    /\ pc' = "dropped"
    /\ regions' = DropPages(owner.pages, regions)
    /\ host' = host \o FreeCalls(owner.pages)
    /\ owner' = [owner EXCEPT !.pages = <<>>]
    /\ UNCHANGED <<elf, result, load_info, i, j, rela_stack, steps, applied, calls>>

\* the number of call_init / call_exit attempts made on one owner
MaxCalls == 3

\* a take that empties both entry points of the Module
take_exit_fn_with_init(module) == [fn |-> module.exit, module |-> [init |-> None, exit |-> None]]

\* Module::take_init_fn / take_exit_fn: Option::take on the entry point
take_init_fn(module) == [fn |-> module.init, module |-> [module EXCEPT !.init = None]]

take_exit_fn(module) == [fn |-> module.exit, module |-> [module EXCEPT !.exit = None]]

\* ModuleOwner::call_init: Ok(result) of the entry point, or
\* Err(InvalidOperation) when it was taken before
call_init ==
    /\ UNCHANGED pvars
    /\ pc = "loaded"
    /\ calls.attempts < MaxCalls
    /\ LET t == take_init_fn(owner.module)
       IN /\ owner' = [owner EXCEPT !.module = t.module]
          /\ calls' = [calls EXCEPT
                 !.attempts = @ + 1,
                 !.init_attempts = @ + 1,
                 !.init_runs = IF t.fn # None THEN @ + 1 ELSE @,
                 !.last = [op |-> "call_init", nth |-> calls.init_attempts + 1,
                           invoked |-> t.fn # None,
                           ret |-> IF t.fn # None THEN "Ok" ELSE "InvalidOperation"]]
    /\ UNCHANGED <<elf, pc, result, regions, load_info, i, j, rela_stack, steps, host,
                   applied>>

\* ModuleOwner::call_exit: it returns (), whether or not the entry point was
\* there to take
call_exit ==
    /\ UNCHANGED pvars
    /\ pc = "loaded"
    /\ calls.attempts < MaxCalls
    /\ LET t == take_exit_fn(owner.module)
       IN /\ owner' = [owner EXCEPT !.module = t.module]
          /\ calls' = [calls EXCEPT
                 !.attempts = @ + 1,
                 !.exit_attempts = @ + 1,
                 !.exit_runs = IF t.fn # None THEN @ + 1 ELSE @,
                 !.last = [op |-> "call_exit", nth |-> calls.exit_attempts + 1,
                           invoked |-> t.fn # None, ret |-> "()"]]
    /\ UNCHANGED <<elf, pc, result, regions, load_info, i, j, rela_stack, steps, host,
                   applied>>

Next ==
    \/ new
    \/ pre_read_modinfo
    \/ layout_and_allocate
    \/ simplify_symbols
    \/ apply_relocations
    \/ post_read_modinfo
    \/ set_section_perms
    \/ drop_owner
    \/ call_init
    \/ call_exit

Spec == Init /\ [][Next]_vars


\* ------------------------------------------------------------------------
\* The parameter argument parser (param.rs)
\* ------------------------------------------------------------------------

\* u8::is_ascii_whitespace
is_ascii_whitespace(b) == b \in {" ", "\t", "\n", "\f", "\r"}

\* skip_spaces that steps over one byte of whitespace
skip_spaces_once(a) ==
    IF a # <<>> /\ is_ascii_whitespace(Head(a)) THEN Tail(a) ELSE a

\* skip_spaces
RECURSIVE skip_spaces(_)
skip_spaces(a) ==
    IF a # <<>> /\ is_ascii_whitespace(Head(a)) THEN skip_spaces(Tail(a)) ELSE a

\* the byte at index p of a buffer: the terminating NUL at its end
ByteOf(a, p) == IF p < Len(a) THEN a[p + 1] ELSE "NUL"

\* the `while args[idx] != b'\0'` loop of next_arg: where it stops and the index
\* of the first '=' (-1 for None)
RECURSIVE next_arg_scan(_, _, _, _)
next_arg_scan(a, idx, in_quote, equals) ==
    IF idx >= Len(a) \/ (is_ascii_whitespace(ByteOf(a, idx)) /\ ~in_quote)
    THEN [idx |-> idx, equals |-> equals]
    ELSE next_arg_scan(a, idx + 1,
                       IF ByteOf(a, idx) = "\"" THEN ~in_quote ELSE in_quote,
                       IF equals = -1 /\ ByteOf(a, idx) = "=" THEN idx ELSE equals)

\* next_arg on a buffer that does not start with NUL: the parameter, the value
\* (None without '=') and the rest of the buffer. The strings end at the NULs
\* the function writes: at the '=', at a closing quote, at the separator.
next_arg(buf) ==
    LET quoted == Head(buf) = "\""
        a == IF quoted THEN Tail(buf) ELSE buf
        s == next_arg_scan(a, 0, quoted, -1)
        idx == s.idx
        has_eq == s.equals # -1
        val_quoted == has_eq /\ ByteOf(a, s.equals + 1) = "\""
        val_idx == IF val_quoted THEN s.equals + 2 ELSE s.equals + 1
        closed == idx > 0 /\ ByteOf(a, idx - 1) = "\"" /\ (val_quoted \/ quoted)
        end == IF closed THEN idx - 1 ELSE idx
    IN [param |-> IF has_eq THEN SubSeq(a, 1, s.equals) ELSE SubSeq(a, 1, end),
        val |-> IF has_eq THEN Some(SubSeq(a, val_idx + 1, end)) ELSE None,
        args |-> IF idx < Len(a) THEN skip_spaces(SubSeq(a, idx + 2, Len(a))) ELSE <<>>]

\* dash2underscore
dash2underscore(c) == IF c = "-" THEN "_" ELSE c

\* parameqn
parameqn(a, b, n) ==
    /\ Len(a) >= n
    /\ Len(b) >= n
    /\ \A k \in 1 .. n : dash2underscore(a[k]) = dash2underscore(b[k])

\* parameq
parameq(a, b) == parameqn(a, b, Len(a))

\* LinuxError::try_from that knows EINVAL alone
LinuxError_is_EINVAL(errno) == "EINVAL"

\* LinuxError::try_from of the errnos the setters return
LinuxError(errno) ==
    CASE errno = 2 -> "ENOENT"
      [] errno = 22 -> "EINVAL"
      [] errno = 28 -> "ENOSPC"
      [] errno = 34 -> "ERANGE"

\* parse_one that does not look at the level
parse_one_at_any_level(param, val, kps, min_level, max_level, res) ==
    LET hits == { n \in 1 .. Len(kps) : parameq(kps[n].name, param) }
        n == CHOOSE h \in hits : \A g \in hits : h <= g
        kp == kps[n]
    IN IF hits = {} THEN [ret |-> "ENOENT", set |-> None]
       ELSE IF val = None /\ ~kp.noarg
       THEN [ret |-> "EINVAL", set |-> None]
       ELSE [ret |-> IF res < 0 THEN LinuxError(-res) ELSE "Ok",
             set |-> Some([kp |-> n, val |-> val])]

\* parse_one that passes over a token without a value where it is to fail
parse_one_skips_no_value(param, val, kps, min_level, max_level, res) ==
    LET hits == { n \in 1 .. Len(kps) : parameq(kps[n].name, param) }
        n == CHOOSE h \in hits : \A g \in hits : h <= g
        kp == kps[n]
    IN IF hits = {} THEN [ret |-> "ENOENT", set |-> None]
       ELSE IF kp.level < min_level \/ kp.level > max_level
       THEN [ret |-> "Ok", set |-> None]
       ELSE IF val = None /\ ~kp.noarg
       THEN [ret |-> "Ok", set |-> None]
       ELSE [ret |-> IF res < 0 THEN LinuxError(-res) ELSE "Ok",
             set |-> Some([kp |-> n, val |-> val])]

\* parse_one: what it returns and the call of the setter it makes (the index of
\* the parameter and the value passed), res being what the setter returns
parse_one(param, val, kps, min_level, max_level, res) ==
    LET hits == { n \in 1 .. Len(kps) : parameq(kps[n].name, param) }
        n == CHOOSE h \in hits : \A g \in hits : h <= g
        kp == kps[n]
    IN IF hits = {} THEN [ret |-> "ENOENT", set |-> None]
       ELSE IF kp.level < min_level \/ kp.level > max_level
       THEN [ret |-> "Ok", set |-> None]
       ELSE IF val = None /\ ~kp.noarg
       THEN [ret |-> "EINVAL", set |-> None]
       ELSE [ret |-> IF res < 0 THEN LinuxError(-res) ELSE "Ok",
             set |-> Some([kp |-> n, val |-> val])]

\* `val.is_none() && param.to_bytes() == b"--"` with any value
is_terminator_any_value(param, val) == param = <<"-", "-">>

\* `val.is_none() && param.to_bytes() == b"--"`
is_terminator(param, val) == val = None /\ param = <<"-", "-">>

\* the values a setter returns
SetterReturns == {0, -22, -28}

\* char::is_whitespace, of the bytes an argument string of the model holds
is_whitespace(c) == c \in {" ", "\t", "\n", "\f", "\r"}

RECURSIVE trim_start(_)
trim_start(s) ==
    IF s # <<>> /\ is_whitespace(Head(s)) THEN trim_start(Tail(s)) ELSE s

RECURSIVE trim_end(_)
trim_end(s) ==
    IF s # <<>> /\ is_whitespace(s[Len(s)]) THEN trim_end(SubSeq(s, 1, Len(s) - 1)) ELSE s

\* str::trim
trim(s) == trim_end(trim_start(s))

\* <bool as KernelParamValue>::parse
bool_parse(s) ==
    LET t == trim(s)
    IN IF t \in {<<"y">>, <<"Y">>, <<"1">>, <<>>} THEN [ok |-> TRUE, v |-> TRUE]
       ELSE IF t \in {<<"n">>, <<"N">>, <<"0">>} THEN [ok |-> TRUE, v |-> FALSE]
       ELSE [ok |-> FALSE, v |-> "EINVAL"]

\* common_set: the parsed value is stored, or -(EINVAL) is returned for any
\* error of the parse
common_set(parsed, slot, cstrings) ==
    IF ~parsed.ok THEN [res |-> -22, slot |-> slot, heap |-> cstrings]
    ELSE [res |-> 0, slot |-> parsed.v, heap |-> cstrings]

\* param_set_bool with a null value standing for "0"
param_set_bool_null_is_no(val, slot, cstrings) ==
    common_set(bool_parse(IF val = None THEN <<"0">> ELSE val[1]), slot, cstrings)

\* param_set_bool: a null value stands for the empty string
param_set_bool(val, slot, cstrings) ==
    common_set(bool_parse(IF val = None THEN <<>> ELSE val[1]), slot, cstrings)

\* the most bytes a string parameter takes
CharpMax == 1024

\* CharpMax bytes 'x' of an argument string, written as one element of it
Kilo == "x*1024"

\* s.len(): the bytes of a string
RECURSIVE ByteLen(_)
ByteLen(s) ==
    IF s = <<>> THEN 0
    ELSE (IF Head(s) = Kilo THEN CharpMax ELSE 1) + ByteLen(Tail(s))

\* <charp as KernelParamValue>::parse, before it allocates
charp_parse(s) ==
    IF ByteLen(s) > CharpMax THEN [ok |-> FALSE, v |-> "ENOSPC"]
    ELSE [ok |-> TRUE, v |-> s]

\* CString::from_raw(ptr) with the CString forgotten: nothing is freed
drop_CString_forgotten(cstrings, ptr) == cstrings

\* CString::from_raw(ptr) and drop: the allocation is freed
drop_CString(cstrings, ptr) ==
    [cstrings EXCEPT ![ptr] = [@ EXCEPT !.live = FALSE, !.frees = @ + 1]]

\* param_set_charp on a value that is not null: -(EINVAL) for any error of the
\* parse; else the new CString is allocated, the old one, if the slot is not
\* null (0), is freed, and the slot takes the new pointer
param_set_charp(val, slot, cstrings) ==
    LET v == charp_parse(val[1])
    IN IF ~v.ok THEN [res |-> -22, slot |-> slot, heap |-> cstrings]
       ELSE [res |-> 0,
             slot |-> Len(cstrings) + 1,
             heap |-> Append(IF slot # 0 THEN drop_CString(cstrings, slot) ELSE cstrings,
                             [str |-> v.v, live |-> TRUE, frees |-> 0])]

\* kp.ops().set called on val and the parameter: what it returns and what it
\* leaves in the slot and on the heap; a setter of the module's own returns
\* `any` and its storage is not looked at
ops_set(kp, val, slot, cstrings, any) ==
    CASE kp.set = "bool" -> param_set_bool(val, slot, cstrings)
      [] kp.set = "charp" -> param_set_charp(val, slot, cstrings)
      [] OTHER -> [res |-> any, slot |-> slot, heap |-> cstrings]

\* One turn of the loop of parse_args on the buffer `buf`: the token next_arg
\* takes, whether it is the terminator, the setter parse_one calls (None for
\* none), what parse_one returns, and the storage and the heap after it
parse_args_turn(buf, c, slots, cstrings, any) ==
    LET t == next_arg(buf)
        Set(hit) ==
            LET Result(out) ==
                    [t |-> t,
                     stop |-> is_terminator(t.param, t.val),
                     set |-> hit,
                     res |-> out.res,
                     ret |-> parse_one(t.param, t.val, c.params, c.min_level,
                                       c.max_level, out.res).ret,
                     store |-> IF hit = None THEN slots
                               ELSE [slots EXCEPT ![hit[1].kp] = out.slot],
                     heap |-> out.heap]
            IN Result(IF hit = None THEN [res |-> 0, slot |-> 0, heap |-> cstrings]
                      ELSE ops_set(c.params[hit[1].kp], hit[1].val, slots[hit[1].kp],
                                   cstrings, any))
    IN Set(IF is_terminator(t.param, t.val) THEN None
           ELSE parse_one(t.param, t.val, c.params, c.min_level, c.max_level, 0).set)

\* the most tokens of an argument string
MaxTokens == 3

\* One token of an argument string, with the key and the value it stands for
Tok(key, val) ==
    [text |-> IF val = None THEN key ELSE key \o <<"=">> \o val[1], key |-> key, val |-> val]

\* key="value"
TokQuoted(key, value) ==
    [text |-> key \o <<"=", "\"">> \o value \o <<"\"">>, key |-> key, val |-> Some(value)]

\* a_b=1, a-b=1, a_b, c=1, a_bc=1, axb=1, --, --=1 and c="1 1"
TokenChoices ==
    { Tok(<<"a", "_", "b">>, Some(<<"1">>)),
      Tok(<<"a", "-", "b">>, Some(<<"1">>)),
      Tok(<<"a", "_", "b">>, None),
      Tok(<<"c">>, Some(<<"1">>)),
      Tok(<<"a", "_", "b", "c">>, Some(<<"1">>)),
      Tok(<<"a", "x", "b">>, Some(<<"1">>)),
      Tok(<<"-", "-">>, None),
      Tok(<<"-", "-">>, Some(<<"1">>)),
      TokQuoted(<<"c">>, <<"1", " ", "1">>) }

\* One KernelParam: raw_name(), level(), KERNEL_PARAM_OPS_FL_NOARG of its ops and
\* ops().set: "bool" for param_set_bool, "charp" for param_set_charp, "any" for
\* a setter of the module's own
KernelParam(name, level, noarg, set) ==
    [name |-> name, level |-> level, noarg |-> noarg, set |-> set]

\* the parameters a module declares: a_b; a-b and c; c above the levels asked
\* for and a_b that needs no value; a and a_b
ParamChoices ==
    { <<KernelParam(<<"a", "_", "b">>, 0, FALSE, "any")>>,
      <<KernelParam(<<"a", "-", "b">>, 0, FALSE, "any"),
        KernelParam(<<"c">>, 0, FALSE, "any")>>,
      <<KernelParam(<<"c">>, 1, FALSE, "any"),
        KernelParam(<<"a", "_", "b">>, 0, TRUE, "any")>>,
      <<KernelParam(<<"a">>, 0, FALSE, "any"),
        KernelParam(<<"a", "_", "b">>, 0, FALSE, "any")>> }

\* the whitespace before the first token, between two tokens and after the last
SpaceChoices ==
    { [lead |-> <<>>, sep |-> <<" ">>, trail |-> <<>>],
      [lead |-> <<" ">>, sep |-> <<" ", "\t">>, trail |-> <<" ">>] }

\* the tokens from the k-th on, with the whitespace between them
RECURSIVE Joined(_, _, _)
Joined(tokens, k, sep) ==
    IF k > Len(tokens) THEN <<>>
    ELSE IF k = Len(tokens) THEN tokens[k].text
    ELSE tokens[k].text \o sep \o Joined(tokens, k + 1, sep)

\* f, f=n, f=x, s=a, s= with 1024 and with 1025 bytes, s, -- and s="a b"
TypedTokenChoices ==
    { Tok(<<"f">>, None),
      Tok(<<"f">>, Some(<<"n">>)),
      Tok(<<"f">>, Some(<<"x">>)),
      Tok(<<"s">>, Some(<<"a">>)),
      Tok(<<"s">>, Some(<<Kilo>>)),
      Tok(<<"s">>, Some(<<Kilo, "x">>)),
      Tok(<<"s">>, None),
      Tok(<<"-", "-">>, None),
      TokQuoted(<<"s">>, <<"a", " ", "b">>) }

\* the bool f and the string s a module declares: both at the level asked for;
\* f above it; s below it
TypedParamChoices ==
    { <<KernelParam(<<"f">>, 0, TRUE, "bool"), KernelParam(<<"s">>, 0, FALSE, "charp")>>,
      <<KernelParam(<<"f">>, 1, TRUE, "bool"), KernelParam(<<"s">>, 0, FALSE, "charp")>>,
      <<KernelParam(<<"f">>, 0, TRUE, "bool"), KernelParam(<<"s">>, -1, FALSE, "charp")>> }

\* the argument string of tokens `t` with the whitespace `w`
ArgString(t, w) == w.lead \o Joined(t, 1, w.sep) \o w.trail

\* One call of parse_args: the argument string, taken apart into its tokens
\* and whitespace, the declared parameters and the levels asked for
ParseCall(t, w, p) ==
    [tokens |-> t, space |-> w, params |-> p, min_level |-> 0, max_level |-> 0,
     args |-> ArgString(t, w)]

ParseCalls ==
    { ParseCall(t, w, p) :
        t \in SeqsUpTo(TokenChoices, MaxTokens), w \in SpaceChoices, p \in ParamChoices }
    \cup
    { ParseCall(t, w, p) :
        t \in SeqsUpTo(TypedTokenChoices, MaxTokens), w \in SpaceChoices,
        p \in TypedParamChoices }

\* the storage before the call: a bool that is false, a null string pointer
NoValues(kps) == [n \in 1 .. Len(kps) |-> IF kps[n].set = "bool" THEN FALSE ELSE 0]

\* the loop of parse_args from the buffer `buf` on, `st` being what the turns
\* before it have left: the tokens dispatched, the setters called, the storage,
\* the heap; what the call leaves and returns
RECURSIVE parse_args_loop(_, _, _, _)
parse_args_loop(buf, c, st, any) ==
    IF buf = <<>> THEN [st EXCEPT !.ret = [ok |-> TRUE, val |-> <<>>]]
    ELSE LET After(one) ==
                 IF one.stop THEN [st EXCEPT !.ret = [ok |-> TRUE, val |-> one.t.args]]
                 ELSE LET Left(nxt) ==
                              IF one.ret = "Ok"
                              THEN parse_args_loop(one.t.args, c, nxt, any)
                              ELSE [nxt EXCEPT !.ret = [ok |-> FALSE, val |-> one.ret]]
                      IN Left([dispatched |->
                                   Append(st.dispatched,
                                          [param |-> one.t.param, val |-> one.t.val]),
                               set_calls |->
                                   IF one.set = None THEN st.set_calls
                                   ELSE Append(st.set_calls,
                                               [token |-> Len(st.dispatched) + 1,
                                                kp |-> one.set[1].kp,
                                                val |-> one.set[1].val]),
                               store |-> one.store,
                               heap |-> one.heap,
                               ret |-> st.ret])
         IN After(parse_args_turn(buf, c, st.store, st.heap, any))

\* parse_args as a function of its arguments, every setter of the module's own
\* returning `any`
parse_args(c, any) ==
    parse_args_loop(skip_spaces(c.args), c,
                    [dispatched |-> <<>>, set_calls |-> <<>>,
                     store |-> NoValues(c.params), heap |-> <<>>, ret |-> "none"],
                    any)

\* parse_args: skip_spaces before the loop
parse_args_begin ==
    /\ ppc = "begin"
    /\ args' = skip_spaces(call.args)
    /\ ppc' = "loop"
    /\ UNCHANGED <<call, dispatched, set_calls, set_rets, ret, store, heap>>
    /\ UNCHANGED vars

\* parse_args: one turn of `while args[0] != b'\0'`
parse_args_next ==
    /\ ppc = "loop"
    /\ args # <<>>
    /\ \E res \in (IF \E n \in 1 .. Len(call.params) : call.params[n].set = "any"
                  THEN SetterReturns ELSE {0}) :
          LET Turn(one) ==
                  IF one.stop
                  THEN /\ ret' = [ok |-> TRUE, val |-> one.t.args]
                       /\ ppc' = "done"
                       /\ args' = one.t.args
                       /\ UNCHANGED <<dispatched, set_calls, set_rets, store, heap>>
                  ELSE /\ dispatched' = Append(dispatched,
                                               [param |-> one.t.param, val |-> one.t.val])
                       /\ set_calls' = (IF one.set = None THEN set_calls
                                        ELSE Append(set_calls,
                                                    [token |-> Len(dispatched) + 1,
                                                     kp |-> one.set[1].kp,
                                                     val |-> one.set[1].val]))
                       /\ set_rets' = (IF one.set = None THEN set_rets
                                       ELSE Append(set_rets, one.res))
                       /\ store' = one.store
                       /\ heap' = one.heap
                       /\ args' = one.t.args
                       /\ IF one.ret = "Ok"
                          THEN UNCHANGED <<ret, ppc>>
                          ELSE ret' = [ok |-> FALSE, val |-> one.ret] /\ ppc' = "done"
          IN Turn(parse_args_turn(args, call, store, heap, res))
    /\ UNCHANGED call
    /\ UNCHANGED vars

\* parse_args: the loop is over, Ok(CString::new("").unwrap())
parse_args_end ==
    /\ ppc = "loop"
    /\ args = <<>>
    /\ ret' = [ok |-> TRUE, val |-> <<>>]
    /\ ppc' = "done"
    /\ UNCHANGED <<call, args, dispatched, set_calls, set_rets, store, heap>>
    /\ UNCHANGED vars

\* a call of parse_args on its own: no module is being loaded
ParamInit ==
    /\ call \in ParseCalls
    /\ args = call.args
    /\ dispatched = <<>>
    /\ set_calls = <<>>
    /\ set_rets = <<>>
    /\ ret = "none"
    /\ ppc = "begin"
    /\ store = NoValues(call.params)
    /\ heap = <<>>
    /\ elf = Elf(FALSE, FALSE, "X86_64", "zero", <<>>, <<>>)
    /\ pc = "idle"
    /\ result = "none"
    /\ owner = NoOwner
    /\ regions = <<>>
    /\ load_info = <<>>
    /\ i = 0
    /\ j = 0
    /\ rela_stack = <<>>
    /\ steps = <<>>
    /\ host = <<>>
    /\ applied = <<>>
    /\ calls = NoCalls

ParamNext ==
    \/ parse_args_begin
    \/ parse_args_next
    \/ parse_args_end

ParamSpec == ParamInit /\ [][ParamNext]_pvars


\* the most calls of the string setter on one slot
MaxSets == 4

\* the values handed to the string setter: a, b, 1024 bytes, 1025 bytes
CharpValues == { <<"a">>, <<"b">>, <<Kilo>>, <<Kilo, "x">> }

\* the string parameter s alone
CharpCall ==
    ParseCall(<<>>, [lead |-> <<>>, sep |-> <<" ">>, trail |-> <<>>],
              <<KernelParam(<<"s">>, 0, FALSE, "charp")>>)

\* param_set_charp called on the slot of s with one of the values
set_charp ==
    /\ ppc = "setting"
    /\ Len(set_calls) < MaxSets
    /\ \E v \in CharpValues :
          LET Stored(out) ==
                  /\ set_calls' = Append(set_calls, [token |-> 0, kp |-> 1, val |-> Some(v)])
                  /\ set_rets' = Append(set_rets, out.res)
                  /\ store' = [store EXCEPT ![1] = out.slot]
                  /\ heap' = out.heap
          IN Stored(param_set_charp(Some(v), store[1], heap))
    /\ UNCHANGED <<call, args, dispatched, ret, ppc>>
    /\ UNCHANGED vars

\* the slot of a string parameter before any call of its setter: null
CharpInit ==
    /\ call = CharpCall
    /\ args = <<>>
    /\ dispatched = <<>>
    /\ set_calls = <<>>
    /\ set_rets = <<>>
    /\ ret = "none"
    /\ ppc = "setting"
    /\ store = NoValues(call.params)
    /\ heap = <<>>
    /\ elf = Elf(FALSE, FALSE, "X86_64", "zero", <<>>, <<>>)
    /\ pc = "idle"
    /\ result = "none"
    /\ owner = NoOwner
    /\ regions = <<>>
    /\ load_info = <<>>
    /\ i = 0
    /\ j = 0
    /\ rela_stack = <<>>
    /\ steps = <<>>
    /\ host = <<>>
    /\ applied = <<>>
    /\ calls = NoCalls

CharpNext == set_charp

CharpSpec == CharpInit /\ [][CharpNext]_pvars


\* ------------------------------------------------------------------------
\* Properties
\* ------------------------------------------------------------------------

IsPrefix(p, q) == Len(p) <= Len(q) /\ \A k \in 1 .. Len(p) : p[k] = q[k]

\* the steps of load_module, in its order
StepOrder == <<"modinfo", "layout", "simplify", "reloc", "this_module", "perms">>

\* the relocation entries of the accepted relocation sections from entry e of
\* section n on: sections in header order, entries in rela-entry order
RECURSIVE EntriesFrom(_, _)
EntriesFrom(n, e) ==
    IF n >= NumSections THEN <<>>
    ELSE IF ~Accepted(Section(n)) \/ e >= Len(Section(n).relas) THEN EntriesFrom(n + 1, 0)
    ELSE <<[sec |-> n, ent |-> e]>> \o EntriesFrom(n, e + 1)

PermsRequested == \E k \in 1 .. Len(host) : host[k].op = "change_perms"

\* C1: load_module enters its steps in the order .modinfo, layout, symbols,
\* relocations, this_module, permissions; the entries handed to the
\* architecture are those of the accepted relocation sections in header order
\* and, within a section, in entry order; no entry follows one that failed;
\* and change_perms is requested only when every entry of every accepted
\* section has been applied with success.
C1_StepsAndRelocationsInOrder ==
    /\ IsPrefix(steps, StepOrder)
    /\ (pc \in {"loaded", "dropped"} => steps = StepOrder)
    /\ IsPrefix([k \in 1 .. Len(applied) |-> [sec |-> applied[k].sec, ent |-> applied[k].ent]],
                EntriesFrom(0, 0))
    /\ \A k \in 1 .. Len(applied) - 1 : applied[k].res = "Ok"
    /\ (applied # <<>> /\ applied[Len(applied)].res # "Ok" => pc \in {"failed", "panicked"})
    /\ (PermsRequested =>
            /\ Len(applied) = Len(EntriesFrom(0, 0))
            /\ \A k \in 1 .. Len(applied) : applied[k].res = "Ok")

\* a load that applied the entries of two relocation sections and went on to
\* commit the permissions
C1_Witness ==
    /\ pc = "loaded"
    /\ PermsRequested
    /\ Len(applied) >= 2
    /\ applied[1].sec # applied[Len(applied)].sec

\* the regions the host handed out, by the host's own log
Obtained == { host[k].at : k \in { n \in 1 .. Len(host) : host[n].op = "vmalloc" /\ host[n].ok } }

FreeLog == SelectSeq(host, LAMBDA h : h.op = "free")

\* C2: when load_module has returned an error, every region the load obtained
\* has been released, once; no region is ever released twice; and when the
\* owner of a successful load has been dropped, the regions released are
\* exactly the regions the load obtained, each once, none before the drop.
C2_RegionsReleasedExactlyOnce ==
    /\ Obtained = 1 .. Len(regions)
    /\ \A k \in 1 .. Len(regions) : regions[k].frees <= 1 /\ (regions[k].live <=> regions[k].frees = 0)
    /\ \A k \in 1 .. Len(regions) :
          regions[k].frees = Cardinality({ n \in 1 .. Len(FreeLog) : FreeLog[n].at = k })
    /\ (pc \in {"failed", "dropped"} => \A k \in 1 .. Len(regions) : regions[k].frees = 1)
    /\ (pc \in {"failed", "dropped"} => { FreeLog[n].at : n \in 1 .. Len(FreeLog) } = Obtained)
    /\ (pc = "loaded" => \A k \in 1 .. Len(regions) : regions[k].live)

\* a load that obtained several regions and then failed on a relocation
C2_Witness ==
    /\ pc = "failed"
    /\ result = "RelocationFailed"
    /\ Len(regions) >= 3
    /\ Len(FreeLog) = Len(regions)

\* the allocatable sections of non-zero size among the first n, in header order
RECURSIVE AllocSections(_)
AllocSections(n) ==
    IF n = 0 THEN <<>>
    ELSE IF "ALLOC" \in Section(n - 1).sh_flags /\ Section(n - 1).sh_size # 0
         THEN Append(AllocSections(n - 1), n - 1)
         ELSE AllocSections(n - 1)

\* the sections layout_and_allocate has been through
LaidOut ==
    IF \A k \in 1 .. Len(steps) : steps[k] # "layout" THEN 0
    ELSE IF steps[Len(steps)] # "layout" THEN NumSections
    ELSE IF pc = "layout" THEN i
    ELSE IF pc = "failed" THEN i + 1
    ELSE NumSections

\* the least multiple of 4096 that is not below n
RoundUp4096(n) == CHOOSE m \in { 4096 * q : q \in 0 .. (n \div 4096) + 1 } : m >= n /\ m - n < 4096

\* the offsets of a region the contents are looked at: both ends, both sides
\* of the end of the section's bytes, and one byte in every 256
Probes(size, bytes) ==
    ((0 .. 7) \cup { 256 * q : q \in 0 .. (size \div 256) } \cup (size - 2 .. size - 1)
        \cup (bytes - 2 .. bytes + 1)) \cap (0 .. size - 1)

VmallocLog == SelectSeq(host, LAMBDA h : h.op = "vmalloc")

\* C3: the regions requested are, in header order, one per section with
\* SHF_ALLOC and a non-zero size, of round_up(sh_size, 4096) bytes; the section's
\* runtime address is the base of its region; until relocations patch it the
\* region holds the sh_size bytes of the image at sh_offset followed by zeros,
\* or zeros only for SHT_NOBITS; every other section has no region and the
\* runtime address 0.
C3_OneRegionPerAllocatedSection ==
    LET secs == AllocSections(LaidOut)
    IN /\ Len(regions) <= Len(secs)
       /\ Len(secs) <= Len(regions) + 1
       /\ (Len(secs) = Len(regions) + 1 => pc = "failed" /\ result = "MemoryAllocationFailed")
       /\ Len(VmallocLog) = Len(secs)
       /\ \A k \in 1 .. Len(secs) :
             VmallocLog[k].size = RoundUp4096(Section(secs[k]).sh_size)
       /\ \A k \in 1 .. Len(regions) :
             LET shdr == Section(secs[k])
             IN /\ regions[k].size = RoundUp4096(shdr.sh_size)
                /\ shdr.sh_addr = regions[k].base
                /\ \A m \in 1 .. Len(regions) : m # k => regions[m].base # regions[k].base
                /\ (pc \in {"layout", "simplify"} =>
                      \A o \in Probes(regions[k].size, shdr.sh_size) :
                         ByteAt(regions[k], o) =
                            IF shdr.sh_type = "NOBITS" \/ o >= shdr.sh_size THEN 0
                            ELSE ImageByte(elf.data, shdr.sh_offset + o))
       /\ \A n \in 0 .. NumSections - 1 :
             (\A k \in 1 .. Len(regions) : secs[k] # n) => Section(n).sh_addr = ZERO64

\* layout is through an image of non-zero bytes that has an SHT_NOBITS section
\* of more than a page, a section of file bytes and a section with no SHF_ALLOC
C3_Witness ==
    /\ pc = "simplify"
    /\ elf.data = "ramp"
    /\ \E n \in 0 .. NumSections - 1 :
          /\ Section(n).sh_type = "NOBITS"
          /\ "ALLOC" \in Section(n).sh_flags
          /\ Section(n).sh_size = PAGE_SIZE + 1
    /\ \E n \in 0 .. NumSections - 1 :
          "ALLOC" \notin Section(n).sh_flags /\ Section(n).sh_size # 0
    /\ Len(regions) >= 3

\* the answer of the host for the symbol of index n, as the host logged it
Resolved(n) == { k \in 1 .. Len(host) : host[k].op = "resolve_symbol" /\ host[k].at = n }

C5_RelSectionRejected ==
    (\E n \in 0 .. NumSections - 1 : Section(n).sh_type = "REL") =>
        (result # "Ok" /\ pc \notin {"loaded", "dropped"})

\* C6: once ModuleLoader::new has run on an image that is not 64-bit or whose
\* machine is not one of the four, the load has failed with UnsupportedArch and
\* no region was requested.
C6_UnsupportedArchRejectedAtEntry ==
    (elf.parses /\ pc # "new" /\ (~elf.is_64 \/ elf.e_machine \notin Machines)) =>
        (pc = "failed" /\ result = "UnsupportedArch" /\ VmallocLog = <<>>)

C8_SecondAttemptIsAnError ==
    /\ calls.init_runs <= 1
    /\ calls.exit_runs <= 1
    /\ (calls.last.nth >= 2 => calls.last.ret = "InvalidOperation" /\ ~calls.last.invoked)

PermLog == SelectSeq(host, LAMBDA h : h.op \in {"change_perms", "flush_cache"})

\* the permissions the ELF flags of a section ask for
FlagPerms(sh_flags) ==
    { p \in {"R", "W", "X"} :
        \/ p = "R" /\ "ALLOC" \in sh_flags
        \/ p = "W" /\ "WRITE" \in sh_flags
        \/ p = "X" /\ "EXECINSTR" \in sh_flags }

\* C9: the change_perms and flush_cache requests alternate, pair k being about
\* the k-th region allocated; change_perms asks for the permissions of that
\* section's ELF flags; flush_cache covers the region and follows a change_perms
\* that succeeded; a change_perms that failed is the last request, and the
\* load then failed with InvalidOperation; a load that succeeded went through
\* every region.
C9_PermissionsCommittedInOrder ==
    LET secs == AllocSections(NumSections)
    IN /\ \A n \in 1 .. Len(PermLog) :
             LET k == (n + 1) \div 2
             IN /\ k <= Len(regions)
                /\ PermLog[n].at = k
                /\ IF n % 2 = 1
                   THEN /\ PermLog[n].op = "change_perms"
                        /\ PermLog[n].perms = FlagPerms(Section(secs[k]).sh_flags)
                        /\ (n < Len(PermLog) => PermLog[n].ok)
                   ELSE /\ PermLog[n].op = "flush_cache"
                        /\ PermLog[n].size = regions[k].size
                        /\ PermLog[n - 1].ok
       /\ (Len(PermLog) % 2 = 1 =>
             /\ ~PermLog[Len(PermLog)].ok
             /\ pc = "failed"
             /\ result = "InvalidOperation")
       /\ (result = "InvalidOperation" => Len(PermLog) % 2 = 1)
       /\ (pc \in {"loaded", "dropped"} => Len(PermLog) = 2 * Len(regions))

\* the permission change of the second of three regions failed
C9_Witness ==
    /\ pc = "failed"
    /\ result = "InvalidOperation"
    /\ Len(PermLog) = 3
    /\ Len(regions) >= 3

\* the kinds the relocation engine of a machine has no code for
NotImplemented(machine, kind) ==
    CASE machine = "X86_64" ->
           kind \notin {R_X86_64_NONE, R_X86_64_64, R_X86_64_32, R_X86_64_32S,
                        R_X86_64_PC32, R_X86_64_PLT32, R_X86_64_PC64}
      [] machine = "AARCH64" -> kind \notin Aarch64RelocationType \ {R_AARCH64_RELATIVE}
      [] machine = "LOONGARCH" ->
           kind \notin {0, 1, 2, 29, 50, 51, 55, 56, 66, 99, 109}
                       \cup (20 .. 24) \cup (32 .. 37) \cup (39 .. 42) \cup (45 .. 46)
                       \cup (71 .. 74)
      [] OTHER -> TRUE

\* C10: on the four machines the relocation step never panics: an entry of a
\* kind the engine has no code for, and an entry that needs a veneer, is
\* answered with an error value, and the load fails with that error.
C10_UnsupportedRelocationIsAnError ==
    /\ (elf.e_machine \in Machines /\ steps # <<>> /\ steps[Len(steps)] = "reloc")
          => pc # "panicked"
    /\ \A k \in 1 .. Len(applied) :
          /\ applied[k].res \in {"Ok", "Err"}
          /\ NotImplemented(elf.e_machine, Section(applied[k].sec).relas[applied[k].ent + 1].kind)
                => (applied[k].res = "Err" /\ pc = "failed" /\ result = "RelocationFailed")

\* ------------------------------------------------------------------------
\* One relocation entry, as the step that applies it sees it
\* ------------------------------------------------------------------------

\* the step hands entry j of section i to the architecture
EntryApplied == pc = "reloc" /\ Len(applied') = Len(applied) + 1

ThisRela == Section(i).relas[j + 1]

\* P: the place the entry names
ThisLocation == wrapping_add(Section(Section(i).sh_info).sh_addr, U64(ThisRela.r_offset))

\* S+A: the value of the entry's symbol plus the addend
ThisTarget == wrapping_add(load_info[ThisRela.sym + 1].sym.st_value, ThisRela.r_addend)

\* what the architecture answered
ThisRes == applied'[Len(applied')].res

\* the load stopped with ModuleErr::RelocationFailed
Aborted == pc' = "failed" /\ result' = "RelocationFailed"

X86Sized == {R_X86_64_64, R_X86_64_32, R_X86_64_32S, R_X86_64_PC32, R_X86_64_PLT32, R_X86_64_PC64}

X86Size(kind) == IF kind \in {R_X86_64_64, R_X86_64_PC64} THEN 8 ELSE 4

\* v read as signed lies in [-2^31, 2^31)
FitsS32(v) == ~SLess(v, <<0, 32768, 65535, 65535>>) /\ SLess(v, <<0, 32768, 0, 0>>)

\* the value lies in the range the claim gives the kind
X86InRange(kind, sa, p) ==
    CASE kind = R_X86_64_32 -> ULess(sa, <<0, 0, 1, 0>>)
      [] kind = R_X86_64_32S -> FitsS32(sa)
      [] kind \in {R_X86_64_PC32, R_X86_64_PLT32} -> FitsS32(wrapping_sub(sa, p))
      [] OTHER -> TRUE

\* the size bytes at the entry's place are all zero
TargetIsZero(size) == \A b \in 0 .. size - 1 : MemRead(regions, ThisLocation, size)[b] = 0

\* C11: over target bytes that are zero, an x86-64 entry of a sized kind
\* succeeds exactly when its value lies in the range of its kind (S+A in
\* [0, 2^32) for _32, in [-2^31, 2^31) for _32S, S+A-P in [-2^31, 2^31) for
\* PC32 and PLT32, any value for _64 and PC64), and outside the range the load
\* fails with RelocationFailed.
C11_X86AcceptsExactlyTheRange ==
    [][ (/\ EntryApplied
         /\ elf.e_machine = "X86_64"
         /\ ThisRela.kind \in X86Sized
         /\ TargetIsZero(X86Size(ThisRela.kind)))
        => LET fits == X86InRange(ThisRela.kind, ThisTarget, ThisLocation)
           IN /\ (ThisRes = "Ok") <=> fits
              /\ ~fits => (ThisRes = "Err" /\ Aborted) ]_vars

\* the bytes of every region outside a set of offsets of one region are the same
\* before and after the step
SameBytesOutside(k0, offs) ==
    /\ Len(regions') = Len(regions)
    /\ \A k \in 1 .. Len(regions) :
          \A o \in DOMAIN regions[k].patch \cup DOMAIN regions'[k].patch :
              (k = k0 /\ o \in offs) \/ ByteAt(regions'[k], o) = ByteAt(regions[k], o)

\* C12: an x86-64 entry of a sized kind fails with RelocationFailed when one of
\* the size bytes at its place is non-zero; a failing x86-64 entry leaves
\* every byte as it was; a succeeding one of a sized kind stores the size
\* little-endian bytes of its value at its place and changes no other byte.
C12_X86TargetMustBeZero ==
    [][ (EntryApplied /\ elf.e_machine = "X86_64")
        => LET kind == ThisRela.kind
               size == X86Size(kind)
               k0 == RegionOf(regions, ThisLocation)
               off == OffsetIn(regions, ThisLocation)
               value == IF kind \in {R_X86_64_PC32, R_X86_64_PLT32, R_X86_64_PC64}
                        THEN wrapping_sub(ThisTarget, ThisLocation) ELSE ThisTarget
           IN /\ (kind \in X86Sized /\ ~TargetIsZero(size)) => (ThisRes = "Err" /\ Aborted)
              /\ ThisRes \in {"Ok", "Err"}
              /\ ThisRes = "Err" => SameBytesOutside(0, {})
              /\ (ThisRes = "Ok" /\ kind \notin X86Sized) => SameBytesOutside(0, {})
              /\ (ThisRes = "Ok" /\ kind \in X86Sized) =>
                    /\ SameBytesOutside(k0, off .. off + size - 1)
                    /\ \A b \in 0 .. size - 1 :
                          ByteAt(regions'[k0], off + b) = LeBytes(value, size)[b] ]_vars

\* an entry of kind R_X86_64_64 was refused over a place whose eighth byte only
\* is non-zero
C12_Witness ==
    /\ pc = "failed"
    /\ result = "RelocationFailed"
    /\ elf.e_machine = "X86_64"
    /\ elf.data = "byte7"
    /\ applied # <<>>
    /\ applied[Len(applied)].res = "Err"
    /\ Section(i).relas[j + 1].kind = R_X86_64_64
    /\ Section(i).relas[j + 1].r_offset = 0

\* ------------------------------------------------------------------------
\* Translation of a PC-relative relocation
\* ------------------------------------------------------------------------

\* the step is about to hand entry j of section i to the architecture
EntryPending ==
    /\ pc = "reloc"
    /\ i < NumSections
    /\ Accepted(Section(i))
    /\ j < Len(Section(i).relas)
    /\ ThisRela.sym < Len(load_info)

\* the memory with every region k bytes further on
ShiftMem(mem, k) == [r \in 1 .. Len(mem) |-> [mem[r] EXCEPT !.base = wrapping_add(@, k)]]

\* the distances the place and the value are moved by: 8 bytes, a page, a page
\* back, 2^32, and up to the last word below 2^63
Shifts ==
    { U64(8), U64(PAGE_SIZE), Neg64(U64(PAGE_SIZE)), <<0, 0, 1, 0>>,
      <<65532, 65534, 65535, 32767>> }

\* what the engine of the image's machine does with the pending entry when the
\* place and the value are moved by k
Moved(k, overflow_checks) ==
    LET mem == ShiftMem(regions, k)
        location == wrapping_add(ThisLocation, k)
        address == wrapping_add(ThisTarget, k)
        stack == IF j = 0 THEN <<>> ELSE rela_stack
        out == IF elf.e_machine = "AARCH64"
               THEN Aarch64_apply_relocation(ThisRela.kind, mem, location, address)
               ELSE Loongarch64_apply_relocation(ThisRela.kind, mem, stack, location, address,
                                                 overflow_checks)
    IN [res |-> out.res, stack |-> out.stack,
        bytes |-> IF RegionOf(out.mem, location) = 0 THEN <<>>
                  ELSE MemRead(out.mem, location, 8)]

\* the kinds that work on the pages of the place and of the value
PageKinds ==
    {R_AARCH64_ADR_PREL_PG_HI21, R_AARCH64_ADR_PREL_PG_HI21_NC, R_LARCH_PCALA_HI20,
     R_LARCH_PCALA_LO12, R_LARCH_PCALA64_LO20, R_LARCH_PCALA64_HI12}

PcRelPending ==
    /\ EntryPending
    /\ elf.e_machine \in {"AARCH64", "LOONGARCH"}
    /\ ThisRela.kind \in PcRelKinds(elf.e_machine)

Overflows(k) == Moved(k, TRUE).res = "Panic" /\ Moved(k, FALSE).res # "Panic"

LoongEntryApplied == EntryApplied /\ elf.e_machine = "LOONGARCH"

\* the stack the entry being applied finds: the one the entry before it in the
\* section left, and a new one for the first entry
StackIn == IF j = 0 THEN <<>> ELSE rela_stack

PushKinds == {R_LARCH_SOP_PUSH_PCREL, R_LARCH_SOP_PUSH_ABSOLUTE, R_LARCH_SOP_PUSH_PLT_PCREL}

PopKinds ==
    {R_LARCH_SOP_PUSH_DUP, R_LARCH_SOP_SUB, R_LARCH_SOP_SL, R_LARCH_SOP_SR, R_LARCH_SOP_ADD,
     R_LARCH_SOP_AND, R_LARCH_SOP_IF_ELSE, R_LARCH_SOP_POP_32_U_10_12,
     R_LARCH_SOP_POP_32_S_10_12, R_LARCH_SOP_POP_32_S_10_16, R_LARCH_SOP_POP_32_S_10_16_S2,
     R_LARCH_SOP_POP_32_S_0_10_10_16_S2, R_LARCH_SOP_POP_32_U}

\* the distance of a PC-relative push cannot be taken: the subtraction
\* overflows, or the PLT entry it needs cannot be emitted
NoDistance ==
    /\ ThisRela.kind \in {R_LARCH_SOP_PUSH_PCREL, R_LARCH_SOP_PUSH_PLT_PCREL}
    /\ \/ SubOverflows(ThisTarget, ThisLocation)
       \/ /\ ThisRela.kind = R_LARCH_SOP_PUSH_PLT_PCREL
          /\ OutOfReach(wrapping_sub(ThisTarget, ThisLocation))

\* C14: while a LoongArch relocation section is applied the stack holds 0 to 16
\* values; a push on a stack of 16 and a pop on an empty stack fail the load
\* with RelocationFailed; the first entry of every section finds an empty
\* stack, whatever the section before left.
C14_StackWithinDepth ==
    [][ LoongEntryApplied =>
          /\ Len(StackIn) <= RELA_STACK_DEPTH
          /\ Len(rela_stack') <= RELA_STACK_DEPTH
          /\ (ThisRela.kind \in PushKinds \cup {R_LARCH_SOP_PUSH_DUP}
                 /\ Len(StackIn) = RELA_STACK_DEPTH)
              => \/ ThisRes = "Err" /\ Aborted
                 \/ ThisRes = "Panic" /\ NoDistance
          /\ (ThisRela.kind \in PopKinds /\ Len(StackIn) = 0)
              => ThisRes = "Err" /\ Aborted
          /\ (j = 0 /\ ThisRela.kind = R_LARCH_SOP_PUSH_ABSOLUTE)
              => ThisRes = "Ok" /\ rela_stack' = <<ThisTarget>>
          /\ (j > 0 /\ ThisRela.kind = R_LARCH_SOP_PUSH_ABSOLUTE
                 /\ Len(StackIn) < RELA_STACK_DEPTH)
              => ThisRes = "Ok" /\ rela_stack' = Append(rela_stack, ThisTarget)
      ]_vars

\* the load failed at the seventeenth push of a section
C14_Witness ==
    /\ pc = "failed"
    /\ result = "RelocationFailed"
    /\ elf.e_machine = "LOONGARCH"
    /\ Len(rela_stack) = RELA_STACK_DEPTH
    /\ applied # <<>>
    /\ applied[Len(applied)].ent = RELA_STACK_DEPTH
    /\ applied[Len(applied)].res = "Err"
    /\ Section(applied[Len(applied)].sec).relas[RELA_STACK_DEPTH + 1].kind
           = R_LARCH_SOP_PUSH_ABSOLUTE

\* a second section whose first entry pops failed the load although the first
\* section left values on the stack
C14_WitnessNewSection ==
    /\ pc = "failed"
    /\ result = "RelocationFailed"
    /\ elf.e_machine = "LOONGARCH"
    /\ Len(applied) > 1
    /\ applied[Len(applied)].ent = 0
    /\ applied[Len(applied)].res = "Err"
    /\ applied[Len(applied) - 1].sec < applied[Len(applied)].sec
    /\ Section(applied[Len(applied) - 1].sec).relas[applied[Len(applied) - 1].ent + 1].kind
           = R_LARCH_SOP_PUSH_ABSOLUTE

\* every entry of LoongArch relocation section i has been applied with success
SectionApplied ==
    /\ pc = "reloc"
    /\ elf.e_machine = "LOONGARCH"
    /\ i < NumSections
    /\ Accepted(Section(i))
    /\ j > 0
    /\ j >= Len(Section(i).relas)

\* C15: when a LoongArch relocation section has been applied with success the
\* evaluation stack is empty; a section that leaves values on it is rejected.
C15_SectionEndsWithEmptyStack == SectionApplied => rela_stack = <<>>

\* ------------------------------------------------------------------------
\* The LoongArch SOP chain
\* ------------------------------------------------------------------------

\* the 32-bit word at the place of the entry being applied, before and after
WordBefore == FromLeBytes(MemRead(regions, ThisLocation, 4), 4)
WordAfter == FromLeBytes(MemRead(regions', ThisLocation, 4), 4)

\* the entry being applied ends the chain push 5, push 3, add, pop of `kind`
ChainEnds(kind) ==
    /\ LoongEntryApplied
    /\ j = 3
    /\ Len(Section(i).relas) = 4
    /\ [n \in 1 .. 4 |-> Section(i).relas[n].kind]
          = <<R_LARCH_SOP_PUSH_ABSOLUTE, R_LARCH_SOP_PUSH_ABSOLUTE, R_LARCH_SOP_ADD, kind>>
    /\ \A n \in 1 .. 4 : Section(i).relas[n].r_offset = ThisRela.r_offset
    /\ \A n \in 1 .. 2 : Section(i).relas[n].r_addend = ZERO64
    /\ load_info[Section(i).relas[1].sym + 1].sym.st_value = U64(5)
    /\ load_info[Section(i).relas[2].sym + 1].sym.st_value = U64(3)

\* C16 as stated: SOP_PUSH_ABSOLUTE 5, SOP_PUSH_ABSOLUTE 3, SOP_ADD, SOP_POP_32_U
\* set bits 21:10 of the word at the place to 8, leave its other bits as they
\* were, and leave the stack empty.
C16_ChainSetsBits21To10 ==
    [][ ChainEnds(R_LARCH_SOP_POP_32_U)
        => /\ ThisRes = "Ok"
           /\ rela_stack' = <<>>
           /\ WordAfter = SetField(WordBefore, 10, 12, U64(8)) ]_vars

\* C16 as amended: the chain sets the whole word at the place to 8, changes no
\* other byte, and leaves the stack empty.
C16_ChainSetsWord ==
    [][ ChainEnds(R_LARCH_SOP_POP_32_U)
        => /\ ThisRes = "Ok"
           /\ rela_stack' = <<>>
           /\ WordAfter = U64(8)
           /\ SameBytesOutside(RegionOf(regions, ThisLocation),
                               {OffsetIn(regions, ThisLocation) + b : b \in 0 .. 3}) ]_vars

\* the load went past the chain on a word that was not zero
C16_Witness ==
    /\ elf.e_machine = "LOONGARCH"
    /\ elf.data = "ramp"
    /\ Len(Section(2).relas) = 4
    /\ Section(2).relas[4].kind = R_LARCH_SOP_POP_32_U
    /\ Section(2).relas[4].r_offset = 4
    /\ Len(applied) = 4
    /\ applied[4].res = "Ok"
    /\ rela_stack = <<>>
    /\ pc = "reloc"
    /\ FromLeBytes(MemRead(regions, wrapping_add(Section(1).sh_addr, U64(4)), 4), 4) = U64(8)

\* ------------------------------------------------------------------------
\* The LoongArch SOP_POP kinds
\* ------------------------------------------------------------------------

\* v in [-2^(n-1), 2^(n-1)) and v in [0, 2^n)
InSigned(v, n) == ~SLess(v, Neg64(Shl64(U64(1), n - 1))) /\ SLess(v, Shl64(U64(1), n - 1))
InUnsigned(v, n) == ~IsNeg64(v) /\ ULess(v, Shl64(U64(1), n))

\* the value fits the field the suffix of the kind names
PopFits(kind, v) ==
    CASE kind = R_LARCH_SOP_POP_32_U_10_12 -> InUnsigned(v, 12)
      [] kind = R_LARCH_SOP_POP_32_S_10_12 -> InSigned(v, 12)
      [] kind = R_LARCH_SOP_POP_32_S_10_16 -> InSigned(v, 16)
      [] kind = R_LARCH_SOP_POP_32_S_10_16_S2 -> v[1] % 4 = 0 /\ InSigned(v, 18)
      [] kind = R_LARCH_SOP_POP_32_S_0_10_10_16_S2 -> v[1] % 4 = 0 /\ InSigned(v, 28)

\* the word with the value in the field the suffix of the kind names
PopEncoded(kind, word, v) ==
    CASE kind \in {R_LARCH_SOP_POP_32_U_10_12, R_LARCH_SOP_POP_32_S_10_12} ->
           SetField(word, 10, 12, v)
      [] kind = R_LARCH_SOP_POP_32_S_10_16 -> SetField(word, 10, 16, v)
      [] kind = R_LARCH_SOP_POP_32_S_10_16_S2 -> SetField(word, 10, 16, Sar64(v, 2))
      [] kind = R_LARCH_SOP_POP_32_S_0_10_10_16_S2 ->
           SetField(SetField(word, 10, 16, Sar64(v, 2)), 0, 10, Sar64(v, 18))

\* an entry of one of `kinds` that finds one value on the stack takes it,
\* accepts it exactly when it fits, encodes an accepted value in its field and
\* changes nothing else, and fails the load on another with no byte changed
PopsAsNamed(kinds) ==
    (LoongEntryApplied /\ ThisRela.kind \in kinds /\ Len(StackIn) = 1)
    => LET v == StackIn[1]
       IN /\ ThisRes \in {"Ok", "Err"}
          /\ ThisRes = "Ok" <=> PopFits(ThisRela.kind, v)
          /\ ThisRes = "Ok"
              => /\ rela_stack' = <<>>
                 /\ WordAfter = PopEncoded(ThisRela.kind, WordBefore, v)
                 /\ SameBytesOutside(RegionOf(regions, ThisLocation),
                                     {OffsetIn(regions, ThisLocation) + b : b \in 0 .. 3})
          /\ ThisRes = "Err" => Aborted /\ SameBytesOutside(0, {})

\* C17: each implemented SOP_POP kind pops one value, accepts it exactly when
\* it fits the field of its suffix (unsigned 12 bits, signed 12, signed 16,
\* 4-byte aligned signed 18, 4-byte aligned signed 28), encodes an accepted
\* value in that field with the other bits of the word unchanged, and aborts
\* the load on another with the word unchanged.
C17_PopFitsItsField ==
    [][ PopsAsNamed({R_LARCH_SOP_POP_32_U_10_12, R_LARCH_SOP_POP_32_S_10_12,
                     R_LARCH_SOP_POP_32_S_10_16, R_LARCH_SOP_POP_32_S_10_16_S2,
                     R_LARCH_SOP_POP_32_S_0_10_10_16_S2}) ]_vars

\* ------------------------------------------------------------------------
\* The parameter argument parser
\* ------------------------------------------------------------------------

\* two names of one length that differ only by '-' for '_' or '_' for '-'
NameVariant(a, b) ==
    /\ Len(a) = Len(b)
    /\ \A k \in 1 .. Len(a) : a[k] = b[k] \/ {a[k], b[k]} = {"-", "_"}

\* the declared parameters a key names, in the order of their declaration
Named(key) == { n \in 1 .. Len(call.params) : NameVariant(call.params[n].name, key) }

\* the setter was called for the k-th token handed to parse_one
SetterCalledFor(k) == \E c \in 1 .. Len(set_calls) : set_calls[c].token = k

\* C18: a token whose key is no declared name, '-' and '_' being the same,
\* ends parse_args with ENOENT: no setter is called for it and no later token
\* is handed to parse_one. Keys longer or shorter than every name are such.
C18_UnknownKeyIsENOENT ==
    \A k \in 1 .. Len(dispatched) :
        Named(dispatched[k].param) = {}
        => /\ ppc = "done"
           /\ ret = [ok |-> FALSE, val |-> "ENOENT"]
           /\ k = Len(dispatched)
           /\ ~SetterCalledFor(k)

\* C19: a declared name and a key that are variants of each other match in
\* either order, and a token with such a key is bound to that parameter; a
\* name and a key that are not variants do not match.
C19_DashMatchesUnderscore ==
    \A k \in 1 .. Len(dispatched) :
        LET key == dispatched[k].param
        IN /\ \A n \in 1 .. Len(call.params) :
                 LET name == call.params[n].name
                 IN IF NameVariant(name, key)
                    THEN parameq(name, key) /\ parameq(key, name)
                    ELSE ~parameq(name, key) /\ ~parameq(key, name)
           /\ \A n \in Named(key) :
                 (/\ \A g \in Named(key) : n <= g
                  /\ call.params[n].level >= call.min_level
                  /\ call.params[n].level <= call.max_level
                  /\ (dispatched[k].val # None \/ call.params[n].noarg))
                 => \E c \in 1 .. Len(set_calls) :
                        set_calls[c] = [token |-> k, kp |-> n, val |-> dispatched[k].val]

\* where the first token `--` with no value stands among the tokens of the
\* argument string, 0 when there is none
Terminators ==
    { k \in 1 .. Len(call.tokens) :
        call.tokens[k].key = <<"-", "-">> /\ call.tokens[k].val = None }

FirstTerminator ==
    IF Terminators = {} THEN 0 ELSE CHOOSE k \in Terminators : \A g \in Terminators : k <= g

\* the tokens parse_args is to dispatch: all of them, or those before `--`
ToDispatch == IF FirstTerminator = 0 THEN Len(call.tokens) ELSE FirstTerminator - 1

\* the argument string after the first `--`, without its leading whitespace
Leftover ==
    IF FirstTerminator = 0 \/ FirstTerminator = Len(call.tokens) THEN <<>>
    ELSE Joined(call.tokens, FirstTerminator + 1, call.space.sep) \o call.space.trail

Typed(c) == \A n \in 1 .. Len(c.params) : c.params[n].set # "any"

\* what the call under way has left and returned
Outcome21 ==
    [dispatched |-> dispatched, set_calls |-> set_calls, store |-> store, heap |-> heap,
     ret |-> ret]

\* the whitespace put before, between and after the tokens of one input
SpaceVariants ==
    SpaceChoices \cup
    { [lead |-> <<"\t", "\n">>, sep |-> <<"\n">>, trail |-> <<"\r", "\f">>] }

\* the tokens after the first `--`, as they stand in the argument string with
\* the whitespace w
LeftoverIn(w) ==
    IF FirstTerminator = 0 \/ FirstTerminator = Len(call.tokens) THEN <<>>
    ELSE Joined(call.tokens, FirstTerminator + 1, w.sep) \o w.trail

\* C21 as stated: the tokens of the call with any other whitespace before,
\* between and after them dispatch the same pairs to the same setters, leave
\* the same values and return the same result.
C21_WhitespaceChangesNothing ==
    (ppc = "done" /\ Typed(call))
    => \A w \in SpaceVariants :
          parse_args(ParseCall(call.tokens, w, call.params), 0) = Outcome21

\* C21: the tokens of the call with any other whitespace before, between and
\* after them dispatch the same pairs to the same setters, leave the same
\* values and return the same error or the same empty string; the leftover
\* returned after a `--` is the rest of the input as it stands, with the
\* whitespace between and after its tokens.
C21_WhitespaceChangesNoBinding ==
    (ppc = "done" /\ Typed(call))
    => \A w \in SpaceVariants :
          parse_args(ParseCall(call.tokens, w, call.params), 0)
              = [Outcome21 EXCEPT !.ret = IF ret.ok THEN [ok |-> TRUE, val |-> LeftoverIn(w)]
                                          ELSE ret]

\* ` s=a \t --  \t f ` has bound s, stopped at `--` and returned `f `
C21_Witness ==
    /\ ppc = "done"
    /\ Typed(call)
    /\ call.space.lead # <<>>
    /\ Len(call.space.sep) > 1
    /\ Len(call.tokens) = 3
    /\ FirstTerminator = 2
    /\ Len(set_calls) = 1
    /\ store # NoValues(call.params)
    /\ ret = [ok |-> TRUE, val |-> call.tokens[3].text \o call.space.trail]

\* the token the turn of the loop under way takes
ThisToken == next_arg(args)

\* a turn of the loop is to hand a token to parse_one
Turning == ppc = "loop" /\ args # <<>> /\ ~is_terminator(ThisToken.param, ThisToken.val)

\* the declared parameters parse_one matches with the key, and the one it takes
Hits(key) == { n \in 1 .. Len(call.params) : parameq(call.params[n].name, key) }

FirstHit(key) == CHOOSE h \in Hits(key) : \A g \in Hits(key) : h <= g

\* the token of this turn matches a declared parameter
Matching == Turning /\ Hits(ThisToken.param) # {}

ThisParam == call.params[FirstHit(ThisToken.param)]

InLevels(kp) == kp.level >= call.min_level /\ kp.level <= call.max_level

\* the turn ends the call with `errno`, calls no setter and leaves the storage
\* and the heap as they are
FailsUntouched(errno) ==
    /\ ppc' = "done"
    /\ ret' = [ok |-> FALSE, val |-> errno]
    /\ set_calls' = set_calls
    /\ store' = store
    /\ heap' = heap

\* C22 as stated: a token without a value that matches a parameter without
\* NOARG ends the call with EINVAL, no setter called, the storage unchanged.
C22_NoValueIsEINVAL ==
    [][ (Matching /\ ThisToken.val = None /\ ~ThisParam.noarg)
        => FailsUntouched("EINVAL") ]_pvars

\* C22: a token without a value that matches a parameter without NOARG whose
\* level is within the levels asked for ends the call with EINVAL, no setter
\* called, the storage unchanged.
C22_NoValueInLevelsIsEINVAL ==
    [][ (Matching /\ ThisToken.val = None /\ ~ThisParam.noarg /\ InLevels(ThisParam))
        => FailsUntouched("EINVAL") ]_pvars

\* `s=a s`: the string s was set, then s without a value has ended the call
\* with EINVAL and the string is as it was
C22_Witness ==
    /\ ppc = "done"
    /\ ret = [ok |-> FALSE, val |-> "EINVAL"]
    /\ Len(dispatched) = 2
    /\ dispatched[2].val = None
    /\ Hits(dispatched[2].param) # {}
    /\ LET kp == call.params[FirstHit(dispatched[2].param)]
       IN ~kp.noarg /\ InLevels(kp) /\ kp.set = "charp"
    /\ Len(set_calls) = 1
    /\ Len(heap) = 1
    /\ heap[1].live

\* the turn calls the setter of the parameter it matched with `val`, and no other
SetterCalledWith(val) ==
    set_calls' = Append(set_calls, [token |-> Len(dispatched) + 1,
                                    kp |-> FirstHit(ThisToken.param), val |-> val])

\* when the parameter matched is a bool its slot holds true after the turn
BoolBecomesTrue ==
    ThisParam.set = "bool" => store'[FirstHit(ThisToken.param)] = TRUE

\* C23 as stated: for a token without a value that matches a parameter with
\* NOARG the setter is called with the empty string, and a bool becomes true.
C23_NoargGetsEmptyString ==
    [][ (Matching /\ ThisToken.val = None /\ ThisParam.noarg)
        => SetterCalledWith(Some(<<>>)) /\ BoolBecomesTrue ]_pvars

\* C23: for a token without a value that matches a parameter with NOARG whose
\* level is within the levels asked for, the setter is called with a null
\* value (None), and a bool becomes true.
C23_NoargGetsNullAndBoolIsSet ==
    [][ (Matching /\ ThisToken.val = None /\ ThisParam.noarg /\ InLevels(ThisParam))
        => SetterCalledWith(None) /\ BoolBecomesTrue ]_pvars

\* `f` alone with the bool f declared: its setter got a null value and f is true
C23_Witness ==
    /\ ppc = "done"
    /\ ret = [ok |-> TRUE, val |-> <<>>]
    /\ Len(dispatched) = 1
    /\ dispatched[1].val = None
    /\ Len(set_calls) = 1
    /\ set_calls[1].val = None
    /\ call.params[set_calls[1].kp].set = "bool"
    /\ call.params[set_calls[1].kp].noarg
    /\ store[set_calls[1].kp] = TRUE
    /\ NoValues(call.params)[set_calls[1].kp] = FALSE

\* C24: a token whose key matches a declared parameter with a level below
\* min_level or above max_level is passed over: no setter is called, the
\* storage and the heap stay as they are, nothing is returned, and the loop
\* goes on with the rest of the input after the token.
C24_OutOfLevelIsSkipped ==
    [][ (Matching /\ ~InLevels(ThisParam))
        => /\ set_calls' = set_calls
           /\ store' = store
           /\ heap' = heap
           /\ ret' = ret
           /\ ppc' = "loop"
           /\ args' = ThisToken.args
           /\ dispatched' = Append(dispatched,
                                   [param |-> ThisToken.param, val |-> ThisToken.val]) ]_pvars

\* `f=x s=a` with the bool f declared above the levels asked for: f=x, which
\* no bool takes, was passed over, f is as it was, and s was set
C24_Witness ==
    /\ ppc = "done"
    /\ ret = [ok |-> TRUE, val |-> <<>>]
    /\ Len(dispatched) = 2
    /\ dispatched[1].val = Some(<<"x">>)
    /\ Hits(dispatched[1].param) # {}
    /\ LET n == FirstHit(dispatched[1].param)
       IN /\ ~InLevels(call.params[n])
          /\ call.params[n].set = "bool"
          /\ store[n] = FALSE
    /\ Len(set_calls) = 1
    /\ set_calls[1].token = 2
    /\ Len(heap) = 1

\* the token of this turn sets the string parameter it matches to a value of
\* more than CharpMax bytes
LongString ==
    /\ Matching
    /\ ThisParam.set = "charp"
    /\ InLevels(ThisParam)
    /\ ThisToken.val # None
    /\ ByteLen(ThisToken.val[1]) > CharpMax

\* C25: setting a string parameter to a value of more than 1024 bytes makes
\* the setter return -ENOSPC (-28) and parse_args return ENOSPC, and the
\* string stored before stays in the slot, not freed.
C25_LongStringIsENOSPC ==
    [][ LongString
        => /\ ops_set(ThisParam, ThisToken.val, store[FirstHit(ThisToken.param)],
                      heap, 0).res = -28
           /\ ppc' = "done"
           /\ ret' = [ok |-> FALSE, val |-> "ENOSPC"]
           /\ store' = store
           /\ heap' = heap ]_pvars

\* what does hold of the long value: the call ends with an error and the
\* string stored before stays in the slot, not freed
LongStringFailsUntouched ==
    [][ LongString
        => /\ ppc' = "done"
           /\ ~ret'.ok
           /\ store' = store
           /\ heap' = heap ]_pvars

\* the turn has called a setter and the setter has returned `res`
SetterReturned(res) ==
    /\ Len(set_rets') = Len(set_rets) + 1
    /\ set_rets'[Len(set_rets')] = res

\* C26: when a setter returns a negative errno, parse_args returns that errno
\* with the token of the setter the last one dispatched (a call that has
\* returned takes no further step), and the storage and the heap are as the
\* tokens before it have left them.
C26_SetterErrnoEndsTheParse ==
    [][ /\ ppc # "done"
        /\ \A res \in {-22, -28} :
              SetterReturned(res)
              => /\ ppc' = "done"
                 /\ ret' = [ok |-> FALSE, val |-> IF res = -22 THEN "EINVAL" ELSE "ENOSPC"]
                 /\ dispatched' = Append(dispatched,
                                         [param |-> ThisToken.param, val |-> ThisToken.val])
                 /\ Len(dispatched') <= Len(call.tokens)
                 /\ store' = store
                 /\ heap' = heap ]_pvars

\* `s=a f=x s=...`: s was set, the bool setter refused `x`, the call returned
\* EINVAL with the third token not dispatched and s still set
C26_Witness ==
    /\ ppc = "done"
    /\ ret = [ok |-> FALSE, val |-> "EINVAL"]
    /\ Len(call.tokens) = 3
    /\ Len(dispatched) = 2
    /\ set_rets = <<0, -22>>
    /\ call.params[set_calls[1].kp].set = "charp"
    /\ call.params[set_calls[2].kp].set = "bool"
    /\ store[set_calls[1].kp] = 1
    /\ heap = <<[str |-> <<"a">>, live |-> TRUE, frees |-> 0]>>

\* a setter of the module's own has returned -ENOSPC and so has parse_args
C26_WitnessENOSPC ==
    /\ ppc = "done"
    /\ ret = [ok |-> FALSE, val |-> "ENOSPC"]
    /\ set_rets # <<>>
    /\ set_rets[Len(set_rets)] = -28

\* the calls of the setter of parameter n that returned 0, in order
Successes(n) == { c \in 1 .. Len(set_calls) : set_calls[c].kp = n /\ set_rets[c] = 0 }

LastSuccess(n) == CHOOSE c \in Successes(n) : \A d \in Successes(n) : d <= c

Live == { k \in 1 .. Len(heap) : heap[k].live }

\* C27: after any calls of the setter on the slot of a string parameter, the
\* slot is null when no call has succeeded and else points to a live string
\* that is the value of the last call that succeeded; that string is the only
\* live one; each call that succeeded has allocated one string and freed the
\* one stored before it, once; a call that failed has allocated and freed none.
C27_SlotOwnsOneLiveString ==
    \A n \in 1 .. Len(call.params) :
        call.params[n].set = "charp"
        => /\ IF Successes(n) = {} THEN store[n] = 0
              ELSE /\ store[n] \in Live
                   /\ heap[store[n]].str = set_calls[LastSuccess(n)].val[1]
           /\ Live = (IF store[n] = 0 THEN {} ELSE {store[n]})
           /\ Len(heap) = Cardinality(Successes(n))
           /\ \A k \in 1 .. Len(heap) :
                 heap[k].frees = (IF k = store[n] THEN 0 ELSE 1)
                 /\ (heap[k].live <=> heap[k].frees = 0)

\* a, then 1025 bytes refused, then b, then 1025 bytes refused: the slot holds
\* b, a was freed once
C27_Witness ==
    /\ ppc = "setting"
    /\ set_rets = <<0, -22, 0, -22>>
    /\ store = <<2>>
    /\ heap = <<[str |-> <<"a">>, live |-> FALSE, frees |-> 1],
                [str |-> <<"b">>, live |-> TRUE, frees |-> 0]>>

\* ------------------------------------------------------------------------
\* The operations of the LoongArch stack
\* ------------------------------------------------------------------------

BinaryKinds ==
    {R_LARCH_SOP_AND, R_LARCH_SOP_ADD, R_LARCH_SOP_SUB, R_LARCH_SOP_SL, R_LARCH_SOP_SR}

\* the stack the entry finds without its n values on top
Below(n) == SubSeq(StackIn, 1, Len(StackIn) - n)

\* the n-th value from the top of the stack the entry finds, the top being 1
FromTop(n) == StackIn[Len(StackIn) + 1 - n]

\* a shift amount within 0 .. 63
AmountInWord(v) == ~IsNeg64(v) /\ ULess(v, U64(64))

\* u64 `>>` by k bits, 0 <= k < 64: zeros come in from the left
Lsr64(a, k) == LowBits(Sar64(a, k), 64 - k)

\* left << right and left >> right as logical shifts of a 64-bit word by an
\* amount that is not negative: by 64 or more no bit of left remains
LogicalShift(kind, left, right) ==
    IF ~AmountInWord(right) THEN ZERO64
    ELSE IF kind = R_LARCH_SOP_SL THEN Shl64(left, right[1]) ELSE Lsr64(left, right[1])

\* what the entry leaves on the stack when it succeeds, `sl` and `sr` being
\* the values of left << right and left >> right
StackAfter(kind, sl, sr) ==
    CASE kind = R_LARCH_SOP_AND -> Append(Below(2), And64(FromTop(2), FromTop(1)))
      [] kind = R_LARCH_SOP_ADD -> Append(Below(2), wrapping_add(FromTop(2), FromTop(1)))
      [] kind = R_LARCH_SOP_SUB -> Append(Below(2), wrapping_sub(FromTop(2), FromTop(1)))
      [] kind = R_LARCH_SOP_SL -> Append(Below(2), sl)
      [] kind = R_LARCH_SOP_SR -> Append(Below(2), sr)
      [] kind = R_LARCH_SOP_IF_ELSE ->
            Append(Below(3), IF FromTop(3) # ZERO64 THEN FromTop(2) ELSE FromTop(1))
      [] kind = R_LARCH_SOP_PUSH_DUP -> Below(1) \o <<FromTop(1), FromTop(1)>>

\* the values the entry takes from the stack
Operands(kind) ==
    IF kind = R_LARCH_SOP_IF_ELSE THEN 3 ELSE IF kind = R_LARCH_SOP_PUSH_DUP THEN 1 ELSE 2

\* an operation of the stack is applied
SopApplied ==
    /\ LoongEntryApplied
    /\ ThisRela.kind \in BinaryKinds \cup {R_LARCH_SOP_IF_ELSE, R_LARCH_SOP_PUSH_DUP}

\* C28 as stated: a successful AND, ADD, SUB, SL or SR finds two values and
\* leaves `left op right` in their place, the top being the right operand, ADD
\* and SUB wrapping and SL and SR being logical shifts; IF_ELSE finds b on top
\* of a on top of c and leaves a when c is not 0 and b otherwise; PUSH_DUP
\* leaves its value twice; the depth changes by -1, -2 and +1.
C28_SopLogicalShifts ==
    [][ (SopApplied /\ ThisRes = "Ok"
            /\ (ThisRela.kind \in {R_LARCH_SOP_SL, R_LARCH_SOP_SR} => ~IsNeg64(FromTop(1))))
        => /\ Len(StackIn) >= Operands(ThisRela.kind)
           /\ rela_stack' = StackAfter(ThisRela.kind,
                                       LogicalShift(R_LARCH_SOP_SL, FromTop(2), FromTop(1)),
                                       LogicalShift(R_LARCH_SOP_SR, FromTop(2), FromTop(1)))
           /\ Len(rela_stack') - Len(StackIn)
                 = (CASE ThisRela.kind = R_LARCH_SOP_IF_ELSE -> -2
                      [] ThisRela.kind = R_LARCH_SOP_PUSH_DUP -> 1
                      [] OTHER -> -1) ]_vars

\* C28: as above, with SL and SR shifting by the low six bits of the right
\* operand, SL as a logical shift and SR as an arithmetic one, which fills
\* with the sign bit of the left operand; an amount outside 0 .. 63 succeeds
\* in a build without overflow checks only; the operations that find their
\* operands and whose result has room on the stack succeed.
C28_SopArithmeticShiftRight ==
    [][ SopApplied
        => /\ ThisRes = "Ok"
              => /\ Len(StackIn) >= Operands(ThisRela.kind)
                 /\ rela_stack' = StackAfter(ThisRela.kind,
                                             Shl64(FromTop(2), FromTop(1)[1] % 64),
                                             Sar64(FromTop(2), FromTop(1)[1] % 64))
                 /\ Len(rela_stack') - Len(StackIn)
                       = (CASE ThisRela.kind = R_LARCH_SOP_IF_ELSE -> -2
                            [] ThisRela.kind = R_LARCH_SOP_PUSH_DUP -> 1
                            [] OTHER -> -1)
           /\ (/\ Len(StackIn) >= Operands(ThisRela.kind)
               /\ Len(StackIn) < RELA_STACK_DEPTH
               /\ ThisRela.kind \in {R_LARCH_SOP_SL, R_LARCH_SOP_SR} => AmountInWord(FromTop(1)))
              => ThisRes = "Ok"
           /\ ThisRes = "Panic"
              => /\ ThisRela.kind \in {R_LARCH_SOP_SL, R_LARCH_SOP_SR}
                 /\ ~AmountInWord(FromTop(1)) ]_vars

\* -8 >> 1 has left -4 on the stack
C28_Witness ==
    /\ pc = "reloc"
    /\ elf.e_machine = "LOONGARCH"
    /\ i < NumSections
    /\ Accepted(Section(i))
    /\ j = 3
    /\ Len(Section(i).relas) = 3
    /\ Section(i).relas[3].kind = R_LARCH_SOP_SR
    /\ Len(load_info) = 3
    /\ load_info[2].sym.st_value = Neg64(U64(8))
    /\ load_info[3].sym.st_value = U64(1)
    /\ rela_stack = <<Neg64(U64(4))>>

\* IF_ELSE on c = 0, a = 5 and b = 3 has left b
C28_WitnessIfElse ==
    /\ pc = "reloc"
    /\ elf.e_machine = "LOONGARCH"
    /\ i < NumSections
    /\ Accepted(Section(i))
    /\ j = 4
    /\ Len(Section(i).relas) = 4
    /\ Section(i).relas[4].kind = R_LARCH_SOP_IF_ELSE
    /\ Len(load_info) = 4
    /\ load_info[4].sym.st_value = U64(0)
    /\ load_info[2].sym.st_value = U64(5)
    /\ load_info[3].sym.st_value = U64(3)
    /\ rela_stack = <<U64(3)>>

\* ------------------------------------------------------------------------
\* AArch64: the store comes before the overflow verdict
\* ------------------------------------------------------------------------

\* the kinds whose overflow apply_relocation answers with Err
Aarch64OverflowChecked ==
    { kind \in Aarch64RelocationType \ {R_AARCH64_JUMP26, R_AARCH64_CALL26} :
        Aarch64Arm(kind).prim # "none" /\ Aarch64Arm(kind).check }

\* an AArch64 entry of an overflow-checked kind was applied and failed
Aarch64OverflowFailed ==
    /\ EntryApplied
    /\ elf.e_machine = "AARCH64"
    /\ ThisRela.kind \in Aarch64OverflowChecked
    /\ ThisRes = "Err"

\* the n bytes at the place of the entry after the step, as a word; the pages
\* of a failed load are released with their bytes as the entry left them
PlaceAfter(n) ==
    LET k0 == RegionOf(regions, ThisLocation)
        off == OffsetIn(regions, ThisLocation)
    IN FromLeBytes([b \in 0 .. n - 1 |-> ByteAt(regions'[k0], off + b)], n)

PlaceBefore(n) == FromLeBytes(MemRead(regions, ThisLocation, n), n)

\* the place holds the truncated result of the entry: the low bytes of the
\* value for the data kinds, the low bits of the shifted value in the
\* immediate field of the instruction for the others
TruncatedResultStored ==
    LET arm == Aarch64Arm(ThisRela.kind)
        v == do_reloc(arm.op, ThisLocation, ThisTarget)
        sv == Sar64(v, arm.lsb)
        word == PlaceAfter(4)
    IN CASE arm.prim = "data" ->
              PlaceAfter(arm.len \div 8) = LowBits(v, arm.len)
         [] arm.prim = "movw" ->
              Field(word, 5, 16)
                 = LowBits(IF arm.t = "IMM_MOVNZ" /\ IsNeg64(v) THEN Not64(sv) ELSE sv, 16)
         [] arm.t = "IMM_ADR" ->
              /\ Field(word, 29, 2) = LowBits(sv, 2)
              /\ Field(word, 5, 19) = LowBits(Sar64(sv, 2), 19)
         [] OTHER ->
              Field(word, 5, arm.len) = LowBits(sv, arm.len)

\* C29: whenever an AArch64 entry of an overflow-checked kind fails with the
\* overflow error, the load ends with RelocationFailed and the place of the
\* entry already holds the truncated result: reloc_data, reloc_insn_movw and
\* reloc_insn_imm store before the verdict is acted on, and no other byte is
\* changed.
C29_Aarch64StoresBeforeVerdict ==
    [][ Aarch64OverflowFailed
        => /\ Aborted
           /\ TruncatedResultStored
           /\ SameBytesOutside(RegionOf(regions, ThisLocation),
                               { OffsetIn(regions, ThisLocation) + b : b \in 0 .. 3 }) ]_vars

\* a failed AArch64 load whose last entry, an R_AARCH64_LD_PREL_LO19 that
\* overflowed, changed the zero word at its place
C29_Witness ==
    /\ pc = "failed"
    /\ result = "RelocationFailed"
    /\ elf.e_machine = "AARCH64"
    /\ elf.data = "zero"
    /\ applied # <<>>
    /\ applied[Len(applied)].res = "Err"
    /\ Section(i).relas[j + 1].kind = R_AARCH64_LD_PREL_LO19
    /\ \E k \in 1 .. Len(regions) :
          \E o \in DOMAIN regions[k].patch : regions[k].patch[o] # 0

\* the same, of a data kind and of a MOVW kind
C29_WitnessData ==
    /\ pc = "failed"
    /\ result = "RelocationFailed"
    /\ elf.e_machine = "AARCH64"
    /\ elf.data = "zero"
    /\ applied # <<>>
    /\ applied[Len(applied)].res = "Err"
    /\ Section(i).relas[j + 1].kind \in {R_AARCH64_ABS32, R_AARCH64_MOVW_UABS_G0}
    /\ \E k \in 1 .. Len(regions) :
          \E o \in DOMAIN regions[k].patch : regions[k].patch[o] # 0

\* ------------------------------------------------------------------------
\* The order of the owner's entry points
\* ------------------------------------------------------------------------

\* the step is an attempt at call_init / call_exit on the owner
CallStep(op) ==
    /\ pc = "loaded"
    /\ calls'.attempts = calls.attempts + 1
    /\ calls'.last.op = op

\* the step drops the owner
DropStep == pc = "loaded" /\ pc' = "dropped"

\* C30: the owner enforces no order between its entry points: call_exit runs
\* the exit entry point exactly when that one is still there, whatever became
\* of init, and call_init runs init exactly when that one is still there,
\* whatever became of exit; neither takes the other's entry point; dropping
\* the owner invokes nothing and takes nothing.
C30_NoOrderBetweenEntryPoints ==
    [][ /\ CallStep("call_exit")
           => /\ calls'.last.invoked <=> owner.module.exit # None
              /\ calls'.exit_runs = calls.exit_runs + (IF owner.module.exit # None THEN 1 ELSE 0)
              /\ calls'.init_runs = calls.init_runs
              /\ owner'.module.exit = None
              /\ owner'.module.init = owner.module.init
        /\ CallStep("call_init")
           => /\ calls'.last.invoked <=> owner.module.init # None
              /\ calls'.init_runs = calls.init_runs + (IF owner.module.init # None THEN 1 ELSE 0)
              /\ calls'.exit_runs = calls.exit_runs
              /\ owner'.module.init = None
              /\ owner'.module.exit = owner.module.exit
        /\ DropStep
           => /\ calls' = calls
              /\ owner'.module = owner.module ]_vars

\* exit ran on a freshly loaded owner, and the call_init made after it ran init
C30_Witness ==
    /\ pc = "loaded"
    /\ calls.attempts = 2
    /\ calls.exit_attempts = 1
    /\ calls.exit_runs = 1
    /\ calls.init_runs = 1
    /\ calls.last = [op |-> "call_init", nth |-> 1, invoked |-> TRUE, ret |-> "Ok"]

\* an owner whose exit entry point was never taken has been dropped
C30_WitnessDrop ==
    /\ pc = "dropped"
    /\ owner.module.exit # None
    /\ calls.exit_runs = 0
    /\ calls.init_runs = 1

====
